---- MODULE Spec2Model ----
(***************************************************************************)
(* teeny: the build pipeline of the static site generator.                 *)
(*                                                                         *)
(* The model follows the most recent variant of the program               *)
(* (src/README.md lines 114-635: collected directory "text", gallery       *)
(* directory "photo"); src/cli.js lines 1-318 is the same pipeline with    *)
(* the collected directory "blog" and without the header/nav/title steps.  *)
(*                                                                         *)
(* One build is a single cooperative thread of control: the directory      *)
(* walker (processDirectory), the page transforms it starts without        *)
(* awaiting them (processPage), and the aggregation (blogIndex).  Every    *)
(* action is the code that runs between two suspension points (await).     *)
(***************************************************************************)
EXTENDS Integers, Sequences, FiniteSets, TLC

\* Bounds of the checked instances.
MaxPosts == 3          \* at most this many entries in the listing of pages/text
MaxPostsPerPage == 2   \* postsPerPage is drawn from 1..MaxPostsPerPage

VARIABLES
    tree,          \* the content tree: directory path -> listing (fs.readdir)
    postsPerPage,  \* let postsPerPage
    status,        \* "idle" (no process) | "start" | "init" | "building" | "done"
                   \* | "failed" (the command's promise rejected)
                   \* | "exited" (process.exit) | "crashed" (unhandled rejection)
    stack,         \* the activation records of processDirectory
    page,          \* per content file: the state of its processPage call
    blogPages,     \* let blogPages: the deferred collected pages
    bi,            \* the locals of the running (or last) blogIndex call
    public,        \* the output directory: path -> file content
    project,       \* templates/ and static/: the files in them
    cli,           \* the process: its command, exit code, console output
    dev,           \* the develop loop: servers, watchers, change handlers
    http           \* the requests the development server is answering

vars == <<tree, postsPerPage, status, stack, page, blogPages, bi, public,
          project, cli, dev, http>>

----------------------------------------------------------------------------
(* Strings, names and paths.  A file or directory name is a sequence of    *)
(* tokens (<<".", "blogIndex", ".md">>, <<"post1", ".md">>, <<"text">>), so *)
(* that startsWith(".") and split(".md") are computed, not looked up.      *)

RECURSIVE Str(_)
Str(tokens) == IF tokens = <<>> THEN "" ELSE Head(tokens) \o Str(Tail(tokens))

RECURSIVE Join(_, _)
Join(strs, sep) ==
    IF strs = <<>> THEN ""
    ELSE IF Len(strs) = 1 THEN strs[1]
    ELSE strs[1] \o sep \o Join(Tail(strs), sep)

Last(s) == s[Len(s)]
Front(s) == SubSeq(s, 1, Len(s) - 1)

\* `${directoryPath}/${element}` as a string; a path is a sequence of names.
PathStr(path) == Join([k \in 1..Len(path) |-> Str(path[k])], "/")

\* element.startsWith(".")
StartsWithDot(name) == name # <<>> /\ name[1] = "."

\* name.split('.md')[0]: the text before the first ".md"
RECURSIVE SplitMd0(_)
SplitMd0(name) ==
    IF name = <<>> \/ Head(name) = ".md" THEN <<>>
    ELSE <<Head(name)>> \o SplitMd0(Tail(name))

\* pagePath.replace('pages/', '').split('/')
PagePathParts(pagePath) == Tail(pagePath)
\* pagePathParts.pop().split('.md')[0]
PageName(pagePath) == Str(SplitMd0(Last(PagePathParts(pagePath))))
\* pagePathParts.join('/') after the pop
TargetPath(pagePath) ==
    LET parts == Front(PagePathParts(pagePath))
    IN  Join([k \in 1..Len(parts) |-> Str(parts[k])], "/")

----------------------------------------------------------------------------
(* Front matter, Markdown and documents.                                   *)
(*                                                                         *)
(* A front-matter attribute that is absent is "" (a string) or 0 (date):   *)
(* the code only tests these attributes for truthiness.  A Markdown body   *)
(* is a sequence of blocks, an HTML fragment a sequence of elements.       *)

Block(kind, text) == [kind |-> kind, text |-> text]
Elem(tag, class, text, href) == [tag |-> tag, class |-> class, text |-> text, href |-> href]

\* markdown.replace("[READ MORE]", `<a class="readmore" href="/">Read more</a>`):
\* String.prototype.replace with a string pattern replaces the first occurrence only.
RECURSIVE ReplaceReadMore(_)
ReplaceReadMore(markdown) ==
    IF markdown = <<>> THEN <<>>
    ELSE IF Head(markdown).kind = "token"
         THEN <<Block("anchor", "Read more")>> \o Tail(markdown)
         ELSE <<Head(markdown)>> \o ReplaceReadMore(Tail(markdown))

\* marked.parse of one block: a paragraph of text, a "# " or "## " heading, raw HTML
\* (the injected <h2> and <figure>) passed through, the Read-more anchor wrapped
\* in the paragraph marked makes of an inline element, and a "[READ MORE]"
\* that was not replaced rendered as a paragraph of plain text.
MarkedBlock(b) ==
    CASE b.kind = "text"    -> Elem("p", "", b.text, "")
      [] b.kind = "heading" -> Elem("h2", "", b.text, "")
      [] b.kind = "h1"      -> Elem("h1", "", b.text, "")
      [] b.kind = "h2html"  -> Elem("h2", "", b.text, "")
      [] b.kind = "figure"  -> Elem("figure", "cover-image", b.text, "")
      [] b.kind = "rollh2"  -> Elem("h2", "select-selected", "Roll: " \o b.text, "")
      [] b.kind = "rolls"   -> Elem("div", "select-items", b.text, "")
      [] b.kind = "anchor"  -> Elem("p", "readmore", b.text, "/")
      [] b.kind = "token"   -> Elem("p", "", "[READ MORE]", "")

\* marked.parse(markdown)
MarkedParse(markdown) == [k \in 1..Len(markdown) |-> MarkedBlock(markdown[k])]

\* Index of the first element of a fragment with the tag (0: none):
\* getElementsByTagName(tag)[0]
FirstTag(html, tag) ==
    IF \E k \in 1..Len(html) : html[k].tag = tag
    THEN CHOOSE k \in 1..Len(html) :
            html[k].tag = tag /\ \A j \in 1..(k - 1) : html[j].tag # tag
    ELSE 0

\* getElementsByClassName(class)[0]
FirstClass(html, class) ==
    IF \E k \in 1..Len(html) : html[k].class = class
    THEN CHOOSE k \in 1..Len(html) :
            html[k].class = class /\ \A j \in 1..(k - 1) : html[j].class # class
    ELSE 0

InsertAfter(html, k, e) == SubSeq(html, 1, k) \o <<e>> \o SubSeq(html, k + 1, Len(html))

----------------------------------------------------------------------------
(* Date formatting (processPage, "Convert YYYYMMDD number into             *)
(* Month Day, Year string").                                               *)

calendar ==
    <<"January", "February", "March", "April", "May", "June", "July",
      "August", "September", "October", "November", "December">>

\* Number.prototype.toString as a sequence of decimal digits
RECURSIVE Digits(_)
Digits(n) == IF n < 10 THEN <<n>> ELSE Digits(n \div 10) \o <<n % 10>>

\* String.prototype.slice(from, to) on a digit string (0-based, end exclusive)
Slice(ds, from, to) ==
    SubSeq(ds, from + 1, IF to > Len(ds) THEN Len(ds) ELSE to)

\* parseInt of a digit string
RECURSIVE ParseInt(_)
ParseInt(ds) == IF ds = <<>> THEN 0 ELSE ParseInt(Front(ds)) * 10 + Last(ds)

\* .replace(/^0/, ""): drops one leading zero (KeepLeadingZero: the faulty variant that drops none)
KeepLeadingZero(ds) == ds
StripLeadingZero(ds) == IF ds # <<>> /\ ds[1] = 0 THEN Tail(ds) ELSE ds

RECURSIVE DigitStr(_)
DigitStr(ds) == IF ds = <<>> THEN "" ELSE ToString(Head(ds)) \o DigitStr(Tail(ds))

\* calendar[parseInt(...) - 1]; an index outside the array is undefined in the code
MonthName(ds) ==
    LET m == ParseInt(Slice(ds, 4, 6))
    IN  IF m \in 1..12 THEN calendar[m] ELSE "undefined"

\* month + " " + day + ", " + year
FormatDate(date) ==
    LET ds    == Digits(date)
        month == MonthName(ds)
        day   == DigitStr(StripLeadingZero(Slice(ds, 6, Len(ds))))
        year  == DigitStr(Slice(ds, 0, 4))
    IN  month \o " " \o day \o ", " \o year

----------------------------------------------------------------------------
(* The project's templates directory, as JSDOM.fromFile sees it.           *)
(*                                                                         *)
(* JSDOM's HTML parser always supplies the html, head and body elements,   *)
(* so a loaded document has them whatever the file holds; document.doctype *)
(* is null ("" here) when the file has no <!DOCTYPE>.                      *)

TemplateFile(doctype, header, pageContent) ==
    [doctype |-> doctype, html |-> TRUE, header |-> header, pageContent |-> pageContent,
     nav |-> <<>>]

TemplateFiles ==
    [p \in {"templates/default.html", "templates/post.html",
            "templates/bare.html", "templates/only.html",
            "templates/plain.html"} |->
        CASE p = "templates/default.html" -> TemplateFile("html", TRUE, TRUE)
          [] p = "templates/post.html"    -> TemplateFile("html", TRUE, TRUE)
          \* only the insertion point, like the default.html that init writes
          [] p = "templates/bare.html"    -> TemplateFile("", FALSE, TRUE)
          \* <!DOCTYPE html> and the insertion point, nothing else
          [] p = "templates/only.html"    -> TemplateFile("html", FALSE, TRUE)
          \* no element with id page-content
          [] p = "templates/plain.html"   -> TemplateFile("html", TRUE, FALSE)]

\* The files processPage and blogIndex read besides the page's template:
\* only their presence matters here.
ComponentFile == TemplateFile("", FALSE, FALSE)

\* The anchors of the element with id nav in component_header.html: the
\* href of each as a sequence of characters, <<>> for an anchor without href
\* (or with an empty one).
HeaderNav ==
    << <<"/">>,
       <<"/", "a", "b", "o", "u", "t">>,
       <<"/", "t", "e", "x", "t">>,
       <<"/", "p", "o", "s", "t", "1">>,
       <<"/", "p", "h", "o", "t", "o">>,
       <<>> >>
ComponentHead == "templates/component_head.html"
ComponentHeader == "templates/component_header.html"
BlogIndexTemplate == "templates/blogIndex.html"
ComponentComment == "templates/component_comment.html"
ComponentCommentForm == "templates/component_comment_form.html"

\* templates/ of a project that has every file the pipeline reads.
ProjectTemplates ==
    [p \in DOMAIN TemplateFiles \cup {ComponentHead, ComponentHeader, BlogIndexTemplate,
                                      ComponentComment, ComponentCommentForm} |->
        IF p \in DOMAIN TemplateFiles THEN TemplateFiles[p]
        ELSE IF p = BlogIndexTemplate THEN TemplateFile("html", TRUE, TRUE)
        ELSE IF p = ComponentHeader THEN [ComponentFile EXCEPT !.nav = HeaderNav]
        ELSE ComponentFile]

\* let templatePath = 'templates/default.html';
\* if (frontmatter.template) templatePath = `templates/${frontmatter.template}.html`
ResolveTemplateDefaultOnly(frontmatter) == "templates/default.html"

ResolveTemplate(frontmatter) ==
    IF frontmatter.template # ""
    THEN "templates/" \o frontmatter.template \o ".html"
    ELSE "templates/default.html"

\* The document of a page: what of the DOM the pipeline reads and writes.
\* content is the children of #page-content (empty when there is none).
Document(template) ==
    [doctype |-> template.doctype, html |-> template.html, title |-> "",
     pageContent |-> template.pageContent, content |-> <<>>, active |-> {}]

NoDocument ==
    [doctype |-> "", html |-> FALSE, title |-> "", pageContent |-> FALSE, content |-> <<>>,
     active |-> {}]

\* href.includes(s): some run of characters of the href spells s; the empty
\* string is included in every string.
\* (IncludesNonEmpty: the faulty variant in which the empty string is
\* included in none)
IncludesNonEmpty(href, s) ==
    /\ s # ""
    /\ \E i \in 1..Len(href) : \E j \in i..Len(href) : Str(SubSeq(href, i, j)) = s
Includes(href, s) ==
    \/ s = ""
    \/ \E i \in 1..Len(href) : \E j \in i..Len(href) : Str(SubSeq(href, i, j)) = s

\* links.forEach: the anchors of #nav whose parent gets the class active,
\* by their place in the nav.  An anchor without href is passed over.
ActiveLinks(nav, pageName, targetPath) ==
    {k \in 1..Len(nav) :
        /\ nav[k] # <<>>
        /\ Includes(nav[k], pageName) \/ Includes(nav[k], targetPath)}

\* The cover-image step: the figure markup is put in front of the Markdown.
WithCover(frontmatter, markdown) ==
    IF frontmatter.image # ""
    THEN <<Block("figure", frontmatter.image)>> \o markdown
    ELSE markdown

\* The title step outside the gallery: <h2>title</h2> in front of the Markdown.
WithTitle(frontmatter, markdown) ==
    IF frontmatter.title # ""
    THEN <<Block("h2html", frontmatter.title)>> \o markdown
    ELSE markdown

GalleryDir == "photo"
GalleryAlias == "public/photo.html"

\* if (targetPath === "photo")
IsGallery(targetPath) == targetPath = GalleryDir

\* The place of a file name of the gallery in the order of
\* Array.prototype.sort (by UTF-16 code units): the files of the gallery are
\* roll1.md, roll2.md, ..., which sort by their digit.
RollRank(name) == CHOOSE k \in 1..9 : name = <<"roll" \o ToString(k), ".md">>

\* roll_list.sort().reverse() on the listing of pages/photo
SortReverse(names) ==
    LET all == {names[k] : k \in 1..Len(names)}
    IN  [i \in 1..Len(names) |->
            CHOOSE x \in all :
                Cardinality({y \in all : RollRank(y) > RollRank(x)}) = i - 1]

\* let roll_list = await fs.readdir(`pages/photo`), sorted and reversed
RollListSorted ==
    LET contents == tree["pages/" \o GalleryDir]
    IN  SortReverse([k \in 1..Len(contents) |-> contents[k].name])

\* roll.slice(0, -3): the file name without its last three characters
RollId(name) == Str(Front(name))

\* rollPage(title): the heading "Roll: <title>" and the dropdown with a link
\* to every file of the gallery listing, in reverse sorted order.
RollPage(title) ==
    <<Block("rollh2", title),
      Block("rolls", Join([k \in 1..Len(RollListSorted) |-> RollId(RollListSorted[k])], " "))>>

\* The title step in the gallery: the roll header in front of the Markdown.
WithRollTitle(frontmatter, markdown) ==
    IF frontmatter.title # "" THEN RollPage(frontmatter.title) \o markdown
    ELSE markdown

\* if (`${frontmatter.title}.md` === roll_list_sorted[0]) latest_roll = true
\* (only reached in the gallery, for a page with a title)
LatestRoll(frontmatter) ==
    /\ frontmatter.title # ""
    /\ frontmatter.title \o ".md" = Str(RollListSorted[1])

\* The date step: a span.date right after the first h2 of the document.
\* The result is <<ok, content>>; ok is FALSE when the document has no h2
\* (dateInsert[0] is undefined and reading its parentNode throws).
WithDate(frontmatter, content) ==
    IF frontmatter.date = 0 THEN <<TRUE, content>>
    ELSE LET h2 == FirstTag(content, "h2")
         IN  IF h2 = 0 THEN <<FALSE, content>>
             ELSE <<TRUE, InsertAfter(content, h2,
                            Elem("span", "muted date", FormatDate(frontmatter.date), ""))>>

\* finalHtml of a page written by processPage
PageHtml(document) ==
    [kind |-> "page", doctype |-> document.doctype, title |-> document.title,
     content |-> document.content, active |-> document.active]

CollectedDir == "text"

\* if (targetPath === "text")
IsCollectedNothing(targetPath) == FALSE
IsCollected(targetPath) == targetPath = CollectedDir

\* if (frontmatter.publish === "no") return
IsUnpublishedNever(frontmatter) == FALSE
IsUnpublished(frontmatter) == frontmatter.publish = "no"

(* processPage from its start to the point where it pushes to blogPages or *)
(* issues its write: everything in between reads files and mutates the     *)
(* page's own document only.  outcome is                                   *)
(*   "skip"  publish: no, returned before anything was loaded              *)
(*   "fail"  the promise rejects (error names the statement that throws)   *)
(*   "exit"  process.exit(1): the document has no html element             *)
(*   "push"  the page is collected                                         *)
(*   "write" finalHtml is handed to fs.writeFile                           *)
ProcessPage(templates, pagePath, fileData) ==
    LET frontmatter  == fileData.attributes
        templatePath == ResolveTemplate(frontmatter)
        exists       == templatePath \in DOMAIN templates
        template     == IF exists THEN templates[templatePath]
                        ELSE TemplateFile("", FALSE, FALSE)
        pageName     == PageName(pagePath)
        targetPath   == TargetPath(pagePath)
        latest_roll  == IsGallery(targetPath) /\ LatestRoll(frontmatter)
        markdown     == ReplaceReadMore(
                            IF IsGallery(targetPath)
                            THEN WithRollTitle(frontmatter, WithCover(frontmatter, fileData.body))
                            ELSE WithTitle(frontmatter, WithCover(frontmatter, fileData.body)))
        parsedHtml   == MarkedParse(markdown)
        inserted     == IF template.pageContent THEN parsedHtml ELSE <<>>
        dated        == WithDate(frontmatter, inserted)
        document     == [Document(template) EXCEPT
                            !.title = IF IsGallery(targetPath) THEN "" ELSE frontmatter.title,
                            !.active = ActiveLinks(templates[ComponentHeader].nav,
                                                   pageName, targetPath),
                            !.content = dated[2]]
        result(outcome, error, loaded, doc) ==
            [outcome |-> outcome, error |-> error, loaded |-> loaded,
             latest_roll |-> outcome = "write" /\ latest_roll,
             frontmatter |-> frontmatter, document |-> doc,
             pageName |-> pageName, targetPath |-> targetPath]
    IN  IF IsUnpublished(frontmatter)
            THEN result("skip", "", <<>>, NoDocument)
        ELSE IF ~exists
            THEN result("fail", "JSDOM.fromFile: no such file", <<templatePath>>, NoDocument)
        ELSE IF ComponentHead \notin DOMAIN templates
            THEN result("fail", "ENOENT templates/component_head.html", <<templatePath>>, NoDocument)
        ELSE IF ComponentHeader \notin DOMAIN templates
            THEN result("fail", "ENOENT templates/component_header.html", <<templatePath>>, NoDocument)
        ELSE IF ~template.header
            THEN result("fail", "headerElement is null", <<templatePath>>, NoDocument)
        ELSE IF ~dated[1]
            THEN result("fail", "dateInsert[0] is undefined", <<templatePath>>, NoDocument)
        ELSE IF ~document.html
            THEN result("exit", "Templates should contain the 'html' tag.", <<templatePath>>, NoDocument)
        ELSE IF IsCollected(targetPath)
            THEN result("push", "", <<templatePath>>, document)
        ELSE IF document.doctype = ""
            THEN result("fail", "document.doctype is null", <<templatePath>>, NoDocument)
        ELSE result("write", "", <<templatePath>>, document)

----------------------------------------------------------------------------
(* blogIndex: the sort, the excerpt and the individual post of one         *)
(* collected page, the pagination controls of one index page.              *)

\* function(a, b){return b[0].date - a[0].date}
\* (a page without date has date undefined: the difference is NaN, which
\* Array.prototype.sort takes as 0)
Compare(a, b) ==
    IF a.frontmatter.date = 0 \/ b.frontmatter.date = 0 THEN 0
    ELSE b.frontmatter.date - a.frontmatter.date

\* Array.prototype.sort is stable (ECMAScript 2019): an element goes behind
\* every element it does not have to precede.
RECURSIVE InsertSorted(_, _)
InsertSorted(sorted, x) ==
    IF sorted = <<>> THEN <<x>>
    ELSE IF Compare(Head(sorted), x) <= 0
         THEN <<Head(sorted)>> \o InsertSorted(Tail(sorted), x)
         ELSE <<x>> \o sorted

RECURSIVE SortPages(_)
SortPages(pages) ==
    IF pages = <<>> THEN <<>>
    ELSE InsertSorted(SortPages(Front(pages)), Last(pages))

\* Math.ceil(blogPages.length / postsPerPage)
CeilDiv(n, p) == (n + p - 1) \div p

PostHref(pageName) == "/" \o CollectedDir \o "/" \o pageName
PostFilePath(pageName) == "public/" \o CollectedDir \o "/" \o pageName \o ".html"

\* blogPages.splice(0, postsPerPage): <<the removed batch, what is left>>
SpliceWhole(pages, p) == <<pages, <<>>>>
\* (SpliceOne: the faulty variant that removes one entry whatever p is)
SpliceOne(pages, p) ==
    LET n == IF Len(pages) < 1 THEN Len(pages) ELSE 1
    IN  <<SubSeq(pages, 1, n), SubSeq(pages, n + 1, Len(pages))>>
Splice(pages, p) ==
    LET n == IF Len(pages) < p THEN Len(pages) ELSE p
    IN  <<SubSeq(pages, 1, n), SubSeq(pages, n + 1, Len(pages))>>

\* The excerpt of a collected page, made on a clone of its document: the h2
\* and the cover image are linked to the post, the Read-more anchor too, and
\* every element after the anchor's paragraph is removed.
\* <<ok, page-content of the clone>>; ok is FALSE where the code throws.
\* (ExcerptLenient: the faulty variant that skips the links and the cut
\* when the h2 or the anchor is missing)
ExcerptLenient(entry) ==
    LET content == entry.document.content
        href    == PostHref(entry.pageName)
        h2      == FirstTag(content, "h2")
        rm      == FirstClass(content, "readmore")
        linked  == [k \in 1..Len(content) |->
                      IF k = h2 \/ k = rm \/ content[k].class = "cover-image"
                      THEN [content[k] EXCEPT !.href = href]
                      ELSE content[k]]
    IN  IF ~entry.document.pageContent
        THEN <<FALSE, <<>>>>
        ELSE <<TRUE, SubSeq(linked, 1, IF rm = 0 THEN Len(linked) ELSE rm)>>
\* (ExcerptWhole: the faulty variant that leaves the clone's elements after
\* the anchor in place)
ExcerptWhole(entry) ==
    LET content == entry.document.content
        href    == PostHref(entry.pageName)
        h2      == FirstTag(content, "h2")
        rm      == FirstClass(content, "readmore")
        linked  == [k \in 1..Len(content) |->
                      IF k = h2 \/ k = rm \/ content[k].class = "cover-image"
                      THEN [content[k] EXCEPT !.href = href]
                      ELSE content[k]]
    IN  IF h2 = 0 \/ rm = 0 \/ ~entry.document.pageContent
        THEN <<FALSE, <<>>>>
        ELSE <<TRUE, linked>>
Excerpt(entry) ==
    LET content == entry.document.content
        href    == PostHref(entry.pageName)
        h2      == FirstTag(content, "h2")
        rm      == FirstClass(content, "readmore")
        linked  == [k \in 1..Len(content) |->
                      IF k = h2 \/ k = rm \/ content[k].class = "cover-image"
                      THEN [content[k] EXCEPT !.href = href]
                      ELSE content[k]]
    IN  IF h2 = 0 \/ rm = 0 \/ ~entry.document.pageContent
        THEN <<FALSE, <<>>>>
        ELSE <<TRUE, SubSeq(linked, 1, rm)>>

\* if (pageIndex !== 0) ... originalBlogPages[pageIndex - 1][2]
\* "" when there is no button; "undefined" marks the read of a missing entry,
\* which throws in the code.  pageIndex counts from 0, sequences from 1.
Newer(originalBlogPages, pageIndex) ==
    IF pageIndex = 0 THEN ""
    ELSE IF pageIndex \in 1..Len(originalBlogPages)
         THEN PostHref(originalBlogPages[pageIndex].pageName)
         ELSE "undefined"

\* if (pageIndex !== totalBlogPages - 1) ... originalBlogPages[pageIndex + 1][2]
\* (OlderSelf: the faulty variant that reads originalBlogPages[pageIndex][2], the post itself)
OlderSelf(originalBlogPages, totalBlogPages, pageIndex) ==
    IF pageIndex = totalBlogPages - 1 THEN ""
    ELSE IF pageIndex + 1 \in 1..Len(originalBlogPages)
         THEN PostHref(originalBlogPages[pageIndex + 1].pageName)
         ELSE "undefined"
Older(originalBlogPages, totalBlogPages, pageIndex) ==
    IF pageIndex = totalBlogPages - 1 THEN ""
    ELSE IF pageIndex + 2 \in 1..Len(originalBlogPages)
         THEN PostHref(originalBlogPages[pageIndex + 2].pageName)
         ELSE "undefined"

\* componentCommentForm.replace("{{ absolute_url }}",
\*     `https://jasonhallen.com/blog/${page[2]}.html`)
AbsoluteUrl(pageName) == "https://jasonhallen.com/blog/" \o pageName \o ".html"

\* The individual post: the Read-more paragraph removed from the page's own
\* document, the Newer/Older buttons appended, the permalink of the comment
\* form.  <<ok, finalHtml>>.
Post(entry, originalBlogPages, totalBlogPages, pageIndex) ==
    LET content == entry.document.content
        rm      == FirstClass(content, "readmore")
        newer   == Newer(originalBlogPages, pageIndex)
        older   == Older(originalBlogPages, totalBlogPages, pageIndex)
    IN  IF rm = 0 \/ newer = "undefined" \/ older = "undefined"
           \/ entry.document.doctype = ""
        THEN <<FALSE, [kind |-> "none"]>>
        ELSE <<TRUE,
               [kind |-> "post", doctype |-> entry.document.doctype,
                title |-> entry.document.title, pageName |-> entry.pageName,
                content |-> SubSeq(content, 1, rm - 1) \o SubSeq(content, rm + 1, Len(content)),
                newer |-> newer, older |-> older, comments |-> <<>>,
                permalink |-> AbsoluteUrl(entry.pageName)]>>

\* One yml file of static/comments/<slug>/: its _id and its replying_to_uid,
\* "" when the file has none.
Comment(id, replyingTo) == [id |-> id, replying_to_uid |-> replyingTo]

\* The article element made from a comment: its uid and whether it carries
\* the class nested.
CommentArticle(c) == [uid |-> c.id, nested |-> c.replying_to_uid # ""]

\* commentListDiv.querySelector(`#comment-${uid}`): the position of the first
\* article with that id among the children of the list, 0 for null.
QuerySelector(list, uid) ==
    IF \E k \in 1..Len(list) : list[k].uid = uid
    THEN CHOOSE k \in 1..Len(list) :
            /\ list[k].uid = uid
            /\ \A j \in 1..(k - 1) : list[j].uid # uid
    ELSE 0

\* The faulty variant that puts a reply behind the nested articles that
\* follow the k-th child, so that replies stand in listing order.
AfterNested(list, k, article) ==
    LET m == IF \E j \in (k + 1)..Len(list) : ~list[j].nested
             THEN (CHOOSE j \in (k + 1)..Len(list) :
                        /\ ~list[j].nested
                        /\ \A i \in (k + 1)..(j - 1) : list[i].nested) - 1
             ELSE Len(list)
    IN  SubSeq(list, 1, m) \o <<article>> \o SubSeq(list, m + 1, Len(list))

\* The faulty variant that adds a reply at the end of the list.
AfterAtEnd(list, k, article) == Append(list, article)

\* element.after(article): the article becomes the next sibling of the k-th
\* child of the list.
After(list, k, article) ==
    SubSeq(list, 1, k) \o <<article>> \o SubSeq(list, k + 1, Len(list))

\* The body of commentsList.forEach for one yml file, on <<ok, list>>: a
\* comment without replying_to_uid is inserted 'beforeend'; a reply goes
\* after the element querySelector finds, and calling after on null throws.
PlaceComment(acc, c) ==
    IF ~acc[1] THEN acc
    ELSE IF c.replying_to_uid = ""
         THEN <<TRUE, Append(acc[2], CommentArticle(c))>>
         ELSE LET k == QuerySelector(acc[2], c.replying_to_uid)
              IN  IF k = 0 THEN <<FALSE, acc[2]>>
                  ELSE <<TRUE, After(acc[2], k, CommentArticle(c))>>

\* commentsList.forEach(...) over the listing of the directory: <<ok, the
\* articles of commentListDiv after its heading>>.
RECURSIVE RenderComments(_)
RenderComments(commentsList) ==
    IF commentsList = <<>> THEN <<TRUE, <<>>>>
    ELSE PlaceComment(RenderComments(SubSeq(commentsList, 1, Len(commentsList) - 1)),
                      commentsList[Len(commentsList)])

\* The comments block of a post: nothing when static/comments/<slug>/ does
\* not exist; otherwise templates/component_comment.html is read, which
\* throws when the file is missing, and the directory is rendered.
CommentThread(proj, slug) ==
    IF slug \notin DOMAIN proj.comments THEN <<TRUE, <<>>>>
    ELSE IF ComponentComment \notin DOMAIN proj.templates THEN <<FALSE, <<>>>>
    ELSE RenderComments(proj.comments[slug])

\* The pagination controls: the three if statements in the order of the code.
Control(muted, href) == [muted |-> muted, href |-> href]
IndexHref(n) == "/" \o CollectedDir \o "/" \o ToString(n)
BackHref(pageCount) ==
    IF pageCount = 2 THEN "/" \o CollectedDir ELSE IndexHref(pageCount - 1)

PaginationNoGuards(pageCount, totalIndexPages) ==
    [begin   |-> Control(pageCount = 1, "/" \o CollectedDir),
     back    |-> Control(pageCount = 1, BackHref(pageCount)),
     forward |-> Control(pageCount = totalIndexPages, IndexHref(pageCount + 1)),
     end     |-> Control(pageCount = totalIndexPages, IndexHref(totalIndexPages)),
     pages   |-> ToString(pageCount) \o " of " \o ToString(totalIndexPages)]

Pagination(pageCount, totalIndexPages) ==
    LET c0 == [begin |-> Control(FALSE, ""), back |-> Control(FALSE, ""),
               forward |-> Control(FALSE, ""), end |-> Control(FALSE, "")]
        c1 == IF pageCount = 1
              THEN LET m == [c0 EXCEPT !.begin.muted = TRUE, !.back.muted = TRUE]
                   IN  IF pageCount # totalIndexPages
                       THEN [m EXCEPT !.forward.href = IndexHref(pageCount + 1),
                                      !.end.href = IndexHref(totalIndexPages)]
                       ELSE m
              ELSE c0
        c2 == IF pageCount = totalIndexPages
              THEN LET m == [c1 EXCEPT !.forward.muted = TRUE, !.end.muted = TRUE]
                   IN  IF pageCount # 1
                       THEN [m EXCEPT !.begin.href = "/" \o CollectedDir,
                                      !.back.href = BackHref(pageCount)]
                       ELSE m
              ELSE c1
        c3 == IF pageCount # 1 /\ pageCount # totalIndexPages
              THEN [c2 EXCEPT !.begin.href = "/" \o CollectedDir,
                              !.back.href = BackHref(pageCount),
                              !.forward.href = IndexHref(pageCount + 1),
                              !.end.href = IndexHref(totalIndexPages)]
              ELSE c2
    IN  [begin |-> c3.begin, back |-> c3.back, forward |-> c3.forward, end |-> c3.end,
         pages |-> ToString(pageCount) \o " of " \o ToString(totalIndexPages)]

\* 'public/text.html' for the first index page, `public/text/${pageCount}.html` after
\* (IndexFilePathHome: the faulty variant that takes the write commented out
\* in the code, 'public/index.html', for the first index page)
IndexFilePathHome(pageCount) ==
    IF pageCount = 1 THEN "public/index.html"
    ELSE "public/" \o CollectedDir \o "/" \o ToString(pageCount) \o ".html"
IndexFilePath(pageCount) ==
    IF pageCount = 1 THEN "public/" \o CollectedDir \o ".html"
    ELSE "public/" \o CollectedDir \o "/" \o ToString(pageCount) \o ".html"

\* finalHtml of an index page
IndexHtml(pageCount, totalIndexPages, aggregatePages) ==
    [kind |-> "index", doctype |-> "html", pageCount |-> pageCount,
     content |-> aggregatePages, pagination |-> Pagination(pageCount, totalIndexPages)]

----------------------------------------------------------------------------
(* The content trees the checked builds run on.                            *)

FrontMatter(publish, template, title, date) ==
    [publish |-> publish, template |-> template, title |-> title, date |-> date,
     image |-> ""]

FileData(attributes, body) == [attributes |-> attributes, body |-> body]
NoData == FileData(FrontMatter("", "", "", 0), <<>>)

\* An entry of a directory listing; data is what fs.readFile and fm give
\* for a file.
FileEntry(name, data) == [isDirectory |-> FALSE, name |-> name, data |-> data]
DirEntry(name) == [isDirectory |-> TRUE, name |-> name, data |-> NoData]

BodyPlain == <<Block("text", "X")>>
BodyMore  == <<Block("text", "intro"), Block("token", "[READ MORE]"), Block("text", "rest")>>

\* Files of pages/text: dated, titled posts with a [READ MORE] token (two
\* dates, so that ties and strict orders both occur), an unpublished post,
\* a post whose template file does not exist and a post whose template has
\* no element with id page-content (and no date, so that it gets as far as
\* the aggregation).
PostDates == {20230101, 20230102}
PostFiles ==
    {FileData(FrontMatter("", "post", "T", d), BodyMore) : d \in PostDates}
    \cup {FileData(FrontMatter("no", "post", "T", 20230102), BodyMore),
          FileData(FrontMatter("", "ghost", "T", 20230101), BodyMore),
          FileData(FrontMatter("", "plain", "T", 0), BodyMore)}

\* Files of the content root: published or not; the default template, the
\* templates with only the insertion point, the template without it, a
\* template that does not exist;
\* with title and date or with neither.
RootFiles ==
    {FileData(FrontMatter(publish, template, td[1], td[2]), BodyPlain) :
        publish \in {"", "no"}, template \in {"", "bare", "only", "plain", "ghost"},
        td \in {<<"", 0>>, <<"T", 20230105>>}}

\* The valid YYYYMMDD dates of some years, for the date step.
DaysInMonth(y, m) ==
    IF m = 2 THEN (IF y % 4 = 0 /\ (y % 100 # 0 \/ y % 400 = 0) THEN 29 ELSE 28)
    ELSE IF m \in {4, 6, 9, 11} THEN 30 ELSE 31
ValidDates ==
    UNION {{y * 10000 + m * 100 + d : d \in 1..DaysInMonth(y, m)} :
                y \in {2023}, m \in 1..12}
    \cup {19991231, 20000229, 20240229, 20241010}
DatedFiles ==
    {FileData(FrontMatter("", "", "T", d), BodyPlain) : d \in ValidDates}

\* Files with a date and no title: the body has no heading, or a "## "
\* heading after its first paragraph.
BodyHeading == <<Block("text", "X"), Block("heading", "H")>>
UntitledDatedFiles ==
    {FileData(FrontMatter("", "", "", 20230105), body) : body \in {BodyPlain, BodyHeading}}

PostName(k) == <<"post" \o ToString(k), ".md">>

\* A post between two good ones that blogIndex cannot handle: its body has
\* no [READ MORE] token, or it has no title (and no date) and so no h2.
GoodPost(date) == FileData(FrontMatter("", "post", "T", date), BodyMore)
MarkerlessPosts ==
    {FileData(FrontMatter("", "post", "T", 20230101), BodyPlain),
     FileData(FrontMatter("", "post", "", 0), BodyMore)}
MarkerlessListings ==
    {<<FileEntry(PostName(1), GoodPost(20230102)), FileEntry(PostName(2), f),
       FileEntry(PostName(3), GoodPost(20230101))>> : f \in MarkerlessPosts}

\* pages/text: the posts in listing order, with or without a subdirectory
\* listed after the first post.  The posts whose template is missing or has
\* no page-content are listed alone or beside one sibling (Trees).
ListedPostFiles == {f \in PostFiles : f.attributes.template = "post"}
SiblingListings ==
    {<<FileEntry(PostName(1), f), FileEntry(PostName(2), g)>> :
        f, g \in {h \in PostFiles : h.attributes.publish # "no"}}
\* Two posts listed before the subdirectory: both transforms are in flight
\* while pages/text/sub is walked.
SubLateListings ==
    {<<FileEntry(PostName(1), f), FileEntry(PostName(2), g), DirEntry(<<"sub">>)>> :
        f, g \in ListedPostFiles}
TextListings ==
    UNION {
        {LET posts == [k \in 1..n |-> FileEntry(PostName(k), f[k])]
         IN  IF sub /\ n > 0 /\ n < MaxPosts
             THEN <<posts[1], DirEntry(<<"sub">>)>> \o Tail(posts)
             ELSE posts
         : f \in [1..n -> ListedPostFiles], sub \in BOOLEAN}
        : n \in 0..MaxPosts}

\* pages/ holds .blogIndex.md, one page and the directory text, in the
\* order fs.readdir lists them.
Tree(root, text) ==
    [d \in {"pages", "pages/text", "pages/text/sub"} |->
        CASE d = "pages" ->
                <<FileEntry(<<".", "blogIndex", ".md">>, NoData),
                  FileEntry(<<"about", ".md">>, root),
                  DirEntry(<<"text">>)>>
          [] d = "pages/text" -> text
          [] d = "pages/text/sub" -> <<>>]

\* Every root page over at most one post, one plain root page over every
\* listing of pages/text and over every pair of siblings, and every dated
\* root page alone.
PlainRoot == FileData(FrontMatter("", "", "", 0), BodyPlain)
Trees ==
    {Tree(root, text) : root \in RootFiles,
                        text \in {<<>>} \cup {<<FileEntry(PostName(1), f)>> : f \in PostFiles}}
    \cup {Tree(PlainRoot, text) :
                text \in TextListings \cup SiblingListings \cup SubLateListings
                            \cup MarkerlessListings}
    \cup {Tree(root, <<>>) : root \in DatedFiles \cup UntitledDatedFiles}

\* Every content file of a tree, as <<pagePath, fileData>>.
\* The paths of the content files of a tree.
RECURSIVE FilesUnder(_, _)
FilesUnder(t, directoryPath) ==
    LET contents == t[PathStr(directoryPath)]
    IN  UNION {IF contents[k].isDirectory
               THEN FilesUnder(t, Append(directoryPath, contents[k].name))
               ELSE {Append(directoryPath, contents[k].name)}
               : k \in 1..Len(contents)}

PageKeys(t) ==
    IF "pages" \in DOMAIN t THEN {PathStr(f) : f \in FilesUnder(t, <<<<"pages">>>>)}
    ELSE {}
PagePathOf(t, q) == CHOOSE f \in FilesUnder(t, <<<<"pages">>>>) : PathStr(f) = q

\* Whether directory dir of the tree lists the file name.
HasFile(t, dir, name) ==
    /\ dir \in DOMAIN t
    /\ \E k \in 1..Len(t[dir]) : ~t[dir][k].isDirectory /\ t[dir][k].name = name

\* fs.readFile(pagePath) followed by fm(fileData)
ReadFile(t, pagePath) ==
    LET contents == t[PathStr(Front(pagePath))]
        k == CHOOSE k \in 1..Len(contents) : contents[k].name = Last(pagePath)
    IN  contents[k].data

----------------------------------------------------------------------------
(* State.                                                                  *)

\* A processPage call: pc is "none" (not started), "running" (suspended in
\* the reads before its push or write), "writing" (awaiting fs.writeFile),
\* "done", "skipped" (publish: no), "failed" (rejected).  A call with
\* latest_roll has a second write to await, of public/photo.html.
\* pagePath is the argument of the call; loaded, pushes and writes record
\* what the call did, calls how often processPage was called for the file.
NoPage ==
    [pc |-> "none", pagePath |-> <<>>, loaded |-> <<>>, pushes |-> 0, writes |-> 0,
     path |-> "", html |-> [kind |-> "none"], latest_roll |-> FALSE, calls |-> 0]

NoBlogIndex ==
    [phase |-> "idle", originalBlogPages |-> <<>>, totalBlogPages |-> 0,
     totalIndexPages |-> 0, pageCount |-> 0, pageIndex |-> 0,
     blogPagesSplice |-> <<>>, k |-> 0, aggregatePages |-> <<>>,
     path |-> "", html |-> [kind |-> "none"]]

\* fs.writeFile(path, data) on the output directory
WriteFile(fs, path, data) ==
    [q \in DOMAIN fs \cup {path} |-> IF q = path THEN data ELSE fs[q]]

EmptyDir == [q \in {} |-> [kind |-> "none"]]

\* static/comments/ without a directory for any post.
NoComments == [slug \in {} |-> <<>>]

\* templates/ and static/ of the working directory: the directories that
\* exist, the files of templates/ (path -> what JSDOM makes of the file),
\* the files of static/ (name -> content) and the directories of
\* static/comments/ (slug -> the comments of its yml files, in the order
\* readdir lists them).
Project(dirs, templates, static) ==
    [dirs |-> dirs, templates |-> templates, static |-> static,
     comments |-> NoComments]
NoFiles == [f \in {} |-> ""]
WorkingProject == Project({"static", "templates"}, ProjectTemplates, NoFiles)

\* A process started as `teeny <command>`: exitCode is 0 until the process
\* exits with another code, log is what console.log printed, pc counts the
\* steps of init(); history holds, for every earlier process of the
\* session, its command, how it ended and the output directory it left;
\* before holds the working directory as the process found it.
Process(command) ==
    [command |-> command, exitCode |-> 0, log |-> <<>>, pc |-> 0, history |-> <<>>,
     before |-> <<>>]

\* switch (command): the case the process takes.
DispatchBuildByDefault(command) ==
    IF command \in {"init", "develop"} THEN command ELSE "build"
Dispatch(command) ==
    IF command \in {"init", "build", "develop"} THEN command ELSE "default"

\* The develop loop of a process.  phase: "off" (no develop call), "building"
\* (develop awaits build()), "watching" (the server and the watcher are up),
\* "closing" (the change handler awaits watcher.close()).  servers counts
\* the HTTP servers listening on the port, listeners is whether the watcher
\* has its 'change' listener, pending the change events the watcher has
\* still to emit, handlers the change handlers that have not yet reached
\* their develop(port).  version counts the changes made to the watched
\* directories, built is the version the latest build started from; stops,
\* starts and builds count server.close(), startServer and build() calls.
NoDev ==
    [phase |-> "off", servers |-> 0, listeners |-> FALSE, pending |-> 0, handlers |-> 0,
     version |-> 0, built |-> 0, stops |-> 0, starts |-> 0, builds |-> 0]

\* The requests of the development server: none were made.
NoHttp == [u \in {} |-> [state |-> "none"]]

\* The pages of a fresh process: no processPage call was made yet.
FreshPages(t) == [q \in PageKeys(t) |-> [NoPage EXCEPT !.pagePath = PagePathOf(t, q)]]

\* `teeny build` was started in a project that has every file the pipeline
\* reads; the module-level statements have run (blogPages = []).
Init ==
    /\ tree \in Trees
    /\ postsPerPage \in 1..MaxPostsPerPage
    /\ status = "start"
    /\ stack = <<>>
    /\ page = FreshPages(tree)
    /\ blogPages = <<>>
    /\ bi = NoBlogIndex
    /\ public = EmptyDir
    /\ project = WorkingProject
    /\ cli = Process("build")
    /\ dev = NoDev
    /\ http = NoHttp

----------------------------------------------------------------------------
(* The walker: build and processDirectory.                                 *)

\* A processDirectory activation: i is the entry whose lstat is awaited
\* (phase "loop"); "join" awaits Promise.all(processPagePromises);
\* "blogIndex" awaits blogIndex(); "cname" awaits the write of public/CNAME.
Frame(directoryPath) ==
    [directoryPath |-> directoryPath, i |-> 1, processPagePromises |-> <<>>,
     phase |-> IF tree[PathStr(directoryPath)] = <<>> THEN "join" ELSE "loop"]

\* let contents = await fs.readdir(`${directoryPath}/`)
Contents(frame) == tree[PathStr(frame.directoryPath)]

Top == stack[Len(stack)]
SetTop(frame) == [stack EXCEPT ![Len(stack)] = frame]

\* for (const element of contents): on to the next element, or to Promise.all
Advance(frame) ==
    [frame EXCEPT !.i = frame.i + 1,
                  !.phase = IF frame.i + 1 > Len(Contents(frame)) THEN "join" ELSE "loop"]

\* fs.copy('static/', 'public/'): every file of static/ under the same name.
\* (The copies of templates/ and pages/ bring the files that are neither
\* .html nor .md; the projects here have none.)
CopyStatic(static) ==
    [q \in {"public/" \o f : f \in DOMAIN static} |->
        [kind |-> "static",
         content |-> static[CHOOSE f \in DOMAIN static : "public/" \o f = q]]]

\* build() up to processDirectory('pages'): blogPages = [],
\* fs.emptyDir('public/'), the copies (their errors are swallowed by
\* safeExecute), then fs.readdir('pages/'), which throws when pages/ does
\* not exist.
StartBuild ==
    /\ blogPages' = <<>>
    /\ public' = CopyStatic(project.static)
    /\ IF "pages" \in DOMAIN tree
       THEN /\ status' = "building"
            /\ stack' = <<Frame(<<<<"pages">>>>)>>
       ELSE /\ status' = "failed"
            /\ stack' = <<>>

\* case 'build': build()
Build ==
    /\ status = "start"
    /\ Dispatch(cli.command) = "build"
    /\ StartBuild
    /\ UNCHANGED <<project, cli, dev, http, tree, postsPerPage, page, bi>>

\* if (!element.startsWith("."))
\* (ShouldDispatchAll: the faulty variant without the test)
ShouldDispatchAll(element) == TRUE
ShouldDispatch(element) == ~StartsWithDot(element)

\* One iteration of the loop of processDirectory, after lstat answered.
\* A directory is walked at once (the call is awaited); a file that does not
\* start with "." gets its processPage call started and not awaited.
WalkEntry ==
    /\ status = "building"
    /\ stack # <<>>
    /\ Top.phase = "loop"
    /\ LET frame   == Top
           element == Contents(frame)[frame.i]
           path    == Append(frame.directoryPath, element.name)
       IN  IF element.isDirectory
           THEN /\ stack' = Append(SetTop(Advance(frame)), Frame(path))
                /\ page' = page
           ELSE IF ShouldDispatch(element.name)
           THEN /\ stack' = SetTop([Advance(frame) EXCEPT
                                !.processPagePromises = Append(@, PathStr(path))])
                /\ page' = [page EXCEPT ![PathStr(path)].pc = "running",
                                        ![PathStr(path)].calls = @ + 1]
           ELSE /\ stack' = SetTop(Advance(frame))
                /\ page' = page
    /\ UNCHANGED <<project, cli, dev, http, tree, postsPerPage, status, blogPages, bi, public>>

Settled(q) == page[q].pc \in {"done", "skipped"}

\* The process is gone: process.exit(1), or an unhandled rejection.
Halted == status \in {"exited", "crashed"}

\* await Promise.all(processPagePromises) rejects: processDirectory, every
\* caller of it and build() reject.  The rejection cancels nothing: the
\* page transforms still in flight go on for as long as the process lives.
WalkJoinRejected ==
    /\ status = "building"
    /\ stack # <<>>
    /\ Top.phase = "join"
    /\ \E k \in 1..Len(Top.processPagePromises) :
            page[Top.processPagePromises[k]].pc = "failed"
    /\ status' = "failed"
    /\ UNCHANGED <<project, cli, dev, http, tree, postsPerPage, stack, page, blogPages, bi, public>>

\* A rejected promise that nothing handles: the promise of a processPage
\* call that rejected while processDirectory had not reached its
\* Promise.all, or the promise of build(), which the command switch does not
\* await.  Node (15 and later; the source imports fs.cp) ends the process
\* with exit code 1 after the current turn; earlier versions print a warning
\* and go on, which is the behaviour without this step.
UnhandledRejection ==
    /\ status \in {"building", "failed"}
    /\ status = "failed" \/ \E q \in DOMAIN page : page[q].pc = "failed"
    /\ status' = "crashed"
    /\ cli' = [cli EXCEPT !.exitCode = 1]
    /\ UNCHANGED <<project, dev, http, tree, postsPerPage, stack, page, blogPages, bi, public>>

\* await Promise.all(processPagePromises) resolves and blogIndex() is called:
\* it sorts blogPages in place and suspends in its first read.
WalkJoin ==
    /\ status = "building"
    /\ stack # <<>>
    /\ Top.phase = "join"
    /\ \A k \in 1..Len(Top.processPagePromises) : Settled(Top.processPagePromises[k])
    /\ blogPages' = SortPages(blogPages)
    /\ bi' = [NoBlogIndex EXCEPT !.phase = "sorted"]
    /\ stack' = SetTop([Top EXCEPT !.phase = "blogIndex"])
    /\ UNCHANGED <<project, cli, dev, http, tree, postsPerPage, status, page, public>>

\* await fs.writeFile('public/CNAME', ...) done: processDirectory returns.
CnameWritten ==
    /\ status = "building"
    /\ stack # <<>>
    /\ Top.phase = "cname"
    /\ public' = WriteFile(public, "public/CNAME", [kind |-> "cname"])
    /\ stack' = Front(stack)
    /\ status' = IF Len(stack) = 1 THEN "done" ELSE status
    /\ UNCHANGED <<project, cli, dev, http, tree, postsPerPage, page, blogPages, bi>>

----------------------------------------------------------------------------
(* processPage.                                                            *)

PageFilePath(targetPath, pageName) ==
    "public/" \o targetPath \o "/" \o pageName \o ".html"

\* The call runs up to its push (a collected page) or up to its
\* fs.writeFile (any other page), or returns or throws before.
PageTransform(q) ==
    /\ page[q].pc = "running"
    /\ ~Halted
    /\ LET r == ProcessPage(project.templates, page[q].pagePath,
                            ReadFile(tree, page[q].pagePath))
       IN  CASE r.outcome = "skip" ->
                    /\ page' = [page EXCEPT ![q].pc = "skipped", ![q].loaded = r.loaded]
                    /\ UNCHANGED <<blogPages, status>>
             [] r.outcome = "fail" ->
                    /\ page' = [page EXCEPT ![q].pc = "failed", ![q].loaded = r.loaded]
                    /\ UNCHANGED <<blogPages, status>>
             [] r.outcome = "exit" ->
                    /\ page' = [page EXCEPT ![q].pc = "failed", ![q].loaded = r.loaded]
                    /\ status' = "exited"
                    /\ UNCHANGED blogPages
             [] r.outcome = "push" ->
                    /\ page' = [page EXCEPT ![q].pc = "done", ![q].loaded = r.loaded,
                                            ![q].pushes = @ + 1]
                    /\ blogPages' = Append(blogPages,
                            [frontmatter |-> r.frontmatter, document |-> r.document,
                             pageName |-> r.pageName])
                    /\ UNCHANGED status
             [] r.outcome = "write" ->
                    /\ page' = [page EXCEPT ![q].pc = "writing", ![q].loaded = r.loaded,
                                            ![q].path = PageFilePath(r.targetPath, r.pageName),
                                            ![q].html = PageHtml(r.document),
                                            ![q].latest_roll = r.latest_roll]
                    /\ UNCHANGED <<blogPages, status>>
    /\ UNCHANGED <<project, cli, dev, http, tree, postsPerPage, stack, bi, public>>

\* await fs.writeFile(`public/${targetPath}/${pageName}.html`, finalHtml) done
PageWritten(q) ==
    /\ page[q].pc = "writing"
    /\ ~Halted
    /\ public' = WriteFile(public, page[q].path, page[q].html)
    /\ page' = IF page[q].latest_roll
               THEN [page EXCEPT ![q].path = GalleryAlias, ![q].latest_roll = FALSE,
                                 ![q].writes = @ + 1]
               ELSE [page EXCEPT ![q].pc = "done", ![q].writes = @ + 1]
    /\ UNCHANGED <<project, cli, dev, http, tree, postsPerPage, status, stack, blogPages, bi>>

----------------------------------------------------------------------------
(* blogIndex, between its suspension points.                               *)

InBlogIndex(phase) ==
    /\ status = "building"
    /\ stack # <<>>
    /\ Top.phase = "blogIndex"
    /\ bi.phase = phase

\* blogIndex returns: processDirectory goes on to write public/CNAME
Return(b) ==
    /\ bi' = [b EXCEPT !.phase = "returned"]
    /\ stack' = SetTop([Top EXCEPT !.phase = "cname"])
    /\ status' = status

\* blogIndex throws: processDirectory and build() reject
Throw(b) ==
    /\ bi' = [b EXCEPT !.phase = "threw"]
    /\ stack' = stack
    /\ status' = "failed"

\* while (blogPages.length !== 0): the next iteration loads the index
\* template, or the function returns
\* (LoopTestOnce: the faulty variant with `if` for `while`, one batch only)
LoopTestOnce(b, pages) ==
    IF pages # <<>> /\ b.pageCount = 1
    THEN /\ bi' = [b EXCEPT !.phase = "template"]
         /\ UNCHANGED <<stack, status>>
    ELSE Return(b)
LoopTest(b, pages) ==
    IF pages # <<>>
    THEN /\ bi' = [b EXCEPT !.phase = "template"]
         /\ UNCHANGED <<stack, status>>
    ELSE Return(b)

\* After the read of pages/.blogIndex.md, which throws when the file does
\* not exist: the copy of the sorted collection, the totals and the counters.
BlogIndexCopy ==
    /\ InBlogIndex("sorted")
    /\ IF HasFile(tree, "pages", <<".", "blogIndex", ".md">>)
       THEN LoopTest([bi EXCEPT !.originalBlogPages = blogPages,
                               !.totalBlogPages = Len(blogPages),
                               !.totalIndexPages = CeilDiv(Len(blogPages), postsPerPage),
                               !.pageCount = 1,
                               !.pageIndex = 0],
                     blogPages)
       ELSE Throw(bi)
    /\ UNCHANGED <<project, cli, dev, http, tree, postsPerPage, page, blogPages, public>>

\* The body of the for loop for the k-th page of the batch, up to the write
\* of its post: the excerpt is added to aggregatePages and the post built.
StartPost(b, k) ==
    LET entry   == b.blogPagesSplice[k]
        excerpt == Excerpt(entry)
        post    == Post(entry, b.originalBlogPages, b.totalBlogPages, b.pageIndex)
        thread  == CommentThread(project, entry.pageName)
    IN  IF ~excerpt[1] \/ ~post[1] \/ ~thread[1]
           \/ ComponentCommentForm \notin DOMAIN project.templates
        THEN Throw(b)
        ELSE /\ bi' = [b EXCEPT !.phase = "post", !.k = k,
                                !.aggregatePages = @ \o excerpt[2],
                                !.path = PostFilePath(entry.pageName),
                                !.html = [post[2] EXCEPT !.comments = thread[2]]]
             /\ UNCHANGED <<stack, status>>

\* After the index template and component_head are read (a missing file
\* throws): the batch is spliced off blogPages and its first page handled.
BlogIndexBatch ==
    /\ InBlogIndex("template")
    /\ IF {BlogIndexTemplate, ComponentHead} \subseteq DOMAIN project.templates
       THEN LET parts == Splice(blogPages, postsPerPage)
            IN  /\ blogPages' = parts[2]
                /\ StartPost([bi EXCEPT !.blogPagesSplice = parts[1],
                                        !.aggregatePages = <<>>], 1)
       ELSE /\ blogPages' = blogPages
            /\ Throw(bi)
    /\ UNCHANGED <<project, cli, dev, http, tree, postsPerPage, page, public>>

\* await fs.writeFile(`public/text/${page[2]}.html`, finalHtml) done;
\* pageIndex += 1; then the next page of the batch, or the pagination and
\* the write of the index page.
BlogIndexPostWritten ==
    /\ InBlogIndex("post")
    /\ public' = WriteFile(public, bi.path, bi.html)
    /\ LET b == [bi EXCEPT !.pageIndex = @ + 1]
       IN  IF bi.k < Len(bi.blogPagesSplice)
           THEN StartPost(b, bi.k + 1)
           ELSE /\ bi' = [b EXCEPT !.phase = "index",
                                   !.path = IndexFilePath(b.pageCount),
                                   !.html = IndexHtml(b.pageCount, b.totalIndexPages,
                                                      b.aggregatePages)]
                /\ UNCHANGED <<stack, status>>
    /\ UNCHANGED <<project, cli, dev, http, tree, postsPerPage, page, blogPages>>

\* await fs.writeFile of the index page done; pageCount += 1; loop test.
BlogIndexPageWritten ==
    /\ InBlogIndex("index")
    /\ public' = WriteFile(public, bi.path, bi.html)
    /\ LoopTest([bi EXCEPT !.pageCount = @ + 1], blogPages)
    /\ UNCHANGED <<project, cli, dev, http, tree, postsPerPage, page, blogPages>>

----------------------------------------------------------------------------
\* The steps of a build that was started.
Pipeline ==
    \/ WalkEntry
    \/ WalkJoin
    \/ WalkJoinRejected
    \/ UnhandledRejection
    \/ CnameWritten
    \/ \E q \in DOMAIN page : PageTransform(q)
    \/ \E q \in DOMAIN page : PageWritten(q)
    \/ BlogIndexCopy
    \/ BlogIndexBatch
    \/ BlogIndexPostWritten
    \/ BlogIndexPageWritten

Next ==
    \/ Build
    \/ Pipeline

Spec == Init /\ [][Next]_vars

----------------------------------------------------------------------------
(* Properties.                                                             *)

\* What the claims read of a content file: its front matter and where its
\* page goes.
AttributesOf(q) == ReadFile(tree, page[q].pagePath).attributes
OutputPathOf(q) ==
    "public/" \o TargetPath(page[q].pagePath) \o "/" \o PageName(page[q].pagePath) \o ".html"
InCollectedDir(q) ==
    Len(page[q].pagePath) = 3 /\ page[q].pagePath[2] = <<"text">>
Dispatched(q) == page[q].pc # "none"

\* C1: after a build that completed without error, every dispatched content
\* file that is not publish: no was handled in exactly one way: processPage
\* wrote its document to public/<targetDirectory>/<pageName>.html (once, and
\* never pushed it), or the file is in the collected directory and was
\* pushed to blogPages exactly once while processPage wrote nothing.
C1_ExactlyOneOutcome ==
    status = "done" =>
        \A q \in DOMAIN page :
            (Dispatched(q) /\ AttributesOf(q).publish # "no") =>
                \/ /\ ~InCollectedDir(q)
                   /\ page[q].writes = 1 /\ page[q].pushes = 0
                   /\ OutputPathOf(q) \in DOMAIN public
                   /\ public[OutputPathOf(q)].kind = "page"
                \/ /\ InCollectedDir(q)
                   /\ page[q].pushes = 1 /\ page[q].writes = 0

C1_Witness ==
    /\ status = "done"
    /\ \E q \in DOMAIN page :
            ~InCollectedDir(q) /\ AttributesOf(q).publish # "no" /\ page[q].writes = 1
    /\ \E q \in DOMAIN page :
            InCollectedDir(q) /\ AttributesOf(q).publish # "no" /\ page[q].pushes = 1

\* C2: a content file with publish: no returns from processPage before any
\* template is loaded; no file is ever written at its output path (neither
\* by processPage nor, as a post, by blogIndex), it is never in blogPages,
\* and no index page holds an excerpt that links to it.
LinksTo(html, href) ==
    /\ html.kind = "index"
    /\ \E k \in 1..Len(html.content) : html.content[k].href = href

C2_UnpublishedLeavesNoTrace ==
    \A q \in DOMAIN page :
        AttributesOf(q).publish = "no" =>
            /\ page[q].pc \in {"none", "running", "skipped"}
            /\ page[q].loaded = <<>>
            /\ page[q].writes = 0 /\ page[q].pushes = 0
            /\ OutputPathOf(q) \notin DOMAIN public
            /\ InCollectedDir(q) =>
                LET name == PageName(page[q].pagePath)
                IN  /\ \A k \in 1..Len(blogPages) : blogPages[k].pageName # name
                    /\ \A k \in 1..Len(bi.originalBlogPages) :
                            bi.originalBlogPages[k].pageName # name
                    /\ \A f \in DOMAIN public :
                            ~LinksTo(public[f], "/text/" \o name)

\* An unpublished post was skipped beside a published one, and the
\* aggregation ran over the published one to its end.
C2_Witness ==
    /\ status = "done"
    /\ \E q \in DOMAIN page :
            InCollectedDir(q) /\ AttributesOf(q).publish = "no" /\ page[q].pc = "skipped"
    /\ \E f \in DOMAIN public : public[f].kind = "index" /\ public[f].content # <<>>

\* C3: the template processPage loads for a content file is
\* templates/<template>.html when its front matter has a template key and
\* templates/default.html when it has none; it loads no other template, and
\* it loads its template once it is past the publish test.
ExpectedTemplate(q) ==
    IF AttributesOf(q).template = "" THEN "templates/default.html"
    ELSE "templates/" \o AttributesOf(q).template \o ".html"

DiscoveryIndex(pageName) ==
    LET listing == tree["pages/text"]
    IN  CHOOSE k \in 1..Len(listing) :
            ~listing[k].isDirectory /\ Str(SplitMd0(listing[k].name)) = pageName

\* pages/text has no subdirectory.
FlatCollectedDir ==
    \A k \in 1..Len(tree["pages/text"]) : ~tree["pages/text"][k].isDirectory

\* C4: the collection blogIndex works on is ordered by date descending, and
\* two collected pages with equal dates stand in the order in which the
\* walker discovered them (the order of the directory listing).
C4_SortedTiesInDiscoveryOrder ==
    \A i, j \in 1..Len(bi.originalBlogPages) :
        i < j =>
            LET a == bi.originalBlogPages[i]
                b == bi.originalBlogPages[j]
            IN  \/ a.frontmatter.date > b.frontmatter.date
                \/ /\ a.frontmatter.date = b.frontmatter.date
                   /\ DiscoveryIndex(a.pageName) < DiscoveryIndex(b.pageName)

\* The part of C4 the code does keep when every collected page has a date
\* and pages/text has no subdirectory: by date descending, never ascending.
C4_SortedByDate ==
    (FlatCollectedDir /\ \A i \in 1..Len(bi.originalBlogPages) : bi.originalBlogPages[i].frontmatter.date # 0) =>
        \A i, j \in 1..Len(bi.originalBlogPages) :
            i < j => bi.originalBlogPages[i].frontmatter.date
                        >= bi.originalBlogPages[j].frontmatter.date

\* The excerpts of a sequence of collected pages, one after the other.
RECURSIVE ExcerptsOf(_)
ExcerptsOf(entries) ==
    IF entries = <<>> THEN <<>>
    ELSE Excerpt(Head(entries))[2] \o ExcerptsOf(Tail(entries))

IndexFiles == {f \in DOMAIN public : public[f].kind = "index"}

\* C5: a run of blogIndex over n >= 1 collected pages with page size p that
\* returned has written exactly ceil(n/p) index pages, and index page k
\* holds the excerpts of the sorted entries (k-1)*p+1 .. min(k*p, n), in
\* that order.
C5_IndexPagesAndBatches ==
    (bi.phase = "returned" /\ bi.totalBlogPages >= 1) =>
        LET n == bi.totalBlogPages
            p == postsPerPage
            T == bi.pageCount - 1
        IN  /\ (T - 1) * p < n /\ n <= T * p
            /\ IndexFiles = {IndexFilePath(k) : k \in 1..T}
            /\ Cardinality(IndexFiles) = T
            /\ \A k \in 1..T :
                LET from == (k - 1) * p + 1
                    to   == IF k * p < n THEN k * p ELSE n
                IN  /\ public[IndexFilePath(k)].pageCount = k
                    /\ public[IndexFilePath(k)].content =
                            ExcerptsOf(SubSeq(bi.originalBlogPages, from, to))
                    /\ to - from + 1 = (IF k < T THEN p ELSE n - (T - 1) * p)

\* Three pages at two per page: batches of 2 and 1.
C5_Witness ==
    /\ bi.phase = "returned"
    /\ bi.totalBlogPages = 3 /\ postsPerPage = 2
    /\ bi.pageCount = 3
    /\ Len(public[IndexFilePath(1)].content) > Len(public[IndexFilePath(2)].content)

\* C6: a build that collected no page has all the same written one index
\* page, at the path of index page 1.
C6_EmptyIndexWritten ==
    (status = "done" /\ \A q \in DOMAIN page : page[q].pushes = 0) =>
        IndexFilePath(1) \in DOMAIN public


\* The index pages the running (or last) blogIndex call has written so far.
WrittenIndexPages ==
    IF bi.phase \in {"template", "post", "index", "returned", "threw"}
    THEN 1..(bi.pageCount - 1) ELSE {}

Linked(control) == control.href # ""

\* C7: on index page k of T the begin and back controls are muted exactly
\* when k = 1, the forward and end controls exactly when k = T; every
\* control that is not muted carries a link, a muted control carries none,
\* and the page shows "k of T".  An interior page has all four controls
\* linked; with T = 1 all four are muted and none is linked.
C7_PaginationControls ==
    \A k \in WrittenIndexPages :
        LET T == bi.totalIndexPages
            c == public[IndexFilePath(k)].pagination
        IN  /\ c.begin.muted <=> (k = 1)
            /\ c.back.muted <=> (k = 1)
            /\ c.forward.muted <=> (k = T)
            /\ c.end.muted <=> (k = T)
            /\ \A x \in {c.begin, c.back, c.forward, c.end} : Linked(x) <=> ~x.muted
            /\ c.pages = ToString(k) \o " of " \o ToString(T)
            /\ (1 < k /\ k < T) =>
                    Linked(c.begin) /\ Linked(c.back) /\ Linked(c.forward) /\ Linked(c.end)
            /\ T = 1 =>
                    \A x \in {c.begin, c.back, c.forward, c.end} : x.muted /\ ~Linked(x)

\* The three index pages of a run are written: the first, an interior one
\* and the last.
C7_Witness ==
    /\ bi.phase = "returned"
    /\ bi.totalIndexPages = 3
    /\ WrittenIndexPages = 1..3
    /\ Linked(public[IndexFilePath(2)].pagination.back)
    /\ public[IndexFilePath(3)].pagination.forward.muted

\* The posts the running (or last) blogIndex call has written so far, as
\* positions of originalBlogPages.
WrittenPosts ==
    IF bi.phase \in {"template", "post", "index", "returned", "threw"}
    THEN 1..bi.pageIndex ELSE {}

EnglishMonth(m) ==
    CASE m = 1 -> "January"   [] m = 2 -> "February" [] m = 3 -> "March"
      [] m = 4 -> "April"     [] m = 5 -> "May"      [] m = 6 -> "June"
      [] m = 7 -> "July"      [] m = 8 -> "August"   [] m = 9 -> "September"
      [] m = 10 -> "October"  [] m = 11 -> "November" [] m = 12 -> "December"

ExpectedDateText(date) ==
    EnglishMonth((date \div 100) % 100) \o " " \o ToString(date % 100)
        \o ", " \o ToString(date \div 10000)

DateSpans(content) ==
    {k \in 1..Len(content) : content[k].tag = "span" /\ content[k].class = "muted date"}

\* C9: a page whose front matter has a valid YYYYMMDD date gets one date
\* span, and its text is "<English month> <day without leading zero>,
\* <year>"; 20230105 gives "January 5, 2023", 20231210 "December 10, 2023".
C9_DateText ==
    /\ \A q \in DOMAIN page :
        (page[q].html.kind = "page" /\ AttributesOf(q).date # 0) =>
            /\ Cardinality(DateSpans(page[q].html.content)) = 1
            /\ \A k \in DateSpans(page[q].html.content) :
                    page[q].html.content[k].text = ExpectedDateText(AttributesOf(q).date)
    /\ \A q \in DOMAIN page :
        (page[q].html.kind = "page" /\ AttributesOf(q).date = 20230105) =>
            \E k \in DateSpans(page[q].html.content) :
                page[q].html.content[k].text = "January 5, 2023"
    /\ \A q \in DOMAIN page :
        (page[q].html.kind = "page" /\ AttributesOf(q).date = 20231210) =>
            \E k \in DateSpans(page[q].html.content) :
                page[q].html.content[k].text = "December 10, 2023"
    /\ \A e \in 1..Len(blogPages) :
            \A k \in DateSpans(blogPages[e].document.content) :
                blogPages[e].document.content[k].text
                    = ExpectedDateText(blogPages[e].frontmatter.date)

\* A page dated 20230105 is written, its date span reads "January 5, 2023".
C9_Witness ==
    \E q \in DOMAIN page :
        /\ AttributesOf(q).date = 20230105
        /\ page[q].pc = "done" /\ page[q].writes = 1
        /\ \E k \in DateSpans(public[OutputPathOf(q)].content) :
                public[OutputPathOf(q)].content[k].text = "January 5, 2023"

\* C10: a content file with no date, no image and no title whose template
\* holds the page-content insertion point and nothing else is rendered: the
\* transform does not fail, and the document it writes has in page-content
\* exactly the Markdown rendering of the body, no h2 and no date span.
OnlyInsertionPoint(q) ==
    LET a == AttributesOf(q)
    IN  /\ a.date = 0 /\ a.image = "" /\ a.title = "" /\ a.publish # "no"
        /\ ResolveTemplate(a) \in DOMAIN project.templates
        /\ project.templates[ResolveTemplate(a)].pageContent
        /\ ~project.templates[ResolveTemplate(a)].header

C10_PlainRoundTrip ==
    \A q \in DOMAIN page :
        (OnlyInsertionPoint(q) /\ page[q].pc \notin {"none", "running"}) =>
            /\ page[q].pc \in {"writing", "done"}
            /\ page[q].html.kind = "page"
            /\ page[q].html.content = MarkedParse(ReadFile(tree, page[q].pagePath).body)
            /\ FirstTag(page[q].html.content, "h2") = 0
            /\ DateSpans(page[q].html.content) = {}


\* The page's template file is there / is not there.
TemplateOf(q) == ResolveTemplate(AttributesOf(q))
MissingTemplate(q) == TemplateOf(q) \notin DOMAIN project.templates
SameDirectory(q, r) == Front(page[q].pagePath) = Front(page[r].pagePath)

\* C13: when the template file of a content file does not exist, only that
\* page fails and writes nothing; every sibling of its directory whose
\* transform was started completes: the process does not end while such a
\* sibling is still waiting for one of its reads or for its write.
C13_SiblingsOfFailedPageComplete ==
    \A q \in DOMAIN page :
        (AttributesOf(q).publish # "no" /\ MissingTemplate(q) /\ Dispatched(q)
            /\ page[q].pc # "running") =>
            /\ page[q].pc = "failed"
            /\ page[q].writes = 0 /\ page[q].pushes = 0
            /\ \A r \in DOMAIN page :
                (r # q /\ SameDirectory(q, r) /\ Dispatched(r) /\ ~MissingTemplate(r)) =>
                    ~(Halted /\ page[r].pc \in {"running", "writing"})

\* C14: a content file, standalone or collected, whose template has no
\* element with id page-content does not make the build fail: its transform
\* does not reject, the aggregation does not throw on it, and when the
\* build is done the page's output file is there.
NoPageContent(q) ==
    /\ AttributesOf(q).publish # "no"
    /\ ~MissingTemplate(q)
    /\ ~project.templates[TemplateOf(q)].pageContent

C14_MissingPageContentTolerated ==
    \A q \in DOMAIN page :
        (NoPageContent(q) /\ Dispatched(q)) =>
            /\ page[q].pc # "failed"
            /\ (InCollectedDir(q) /\ page[q].pushes = 1) => bi.phase # "threw"
            /\ status = "done" => OutputPathOf(q) \in DOMAIN public

\* The part of C14 the code keeps: a standalone page without date is written,
\* with an empty page-content.
C14_StandaloneWithoutDateWritten ==
    \A q \in DOMAIN page :
        (NoPageContent(q) /\ ~InCollectedDir(q) /\ AttributesOf(q).date = 0
            /\ page[q].pc \notin {"none", "running"}) =>
            /\ page[q].pc \in {"writing", "done"}
            /\ page[q].html.content = <<>>

----------------------------------------------------------------------------
(* Sessions: teeny processes started one after the other in the same       *)
(* working directory, each taking one case of the command switch.          *)

\* At most this many processes in a session.
MaxRuns == 2

\* The commands tried: init, build, a word the switch does not know, and
\* no word at all (scriptArgs[0] is undefined).  develop has its own
\* specification (SpecDev).
Commands == {"init", "build", "serve", "undefined"}

\* What init() writes: the example page (front matter template: homepage,
\* body "# Hello World"), the two templates (an html element with a body
\* holding #page-content; no doctype, no #header) and the static asset.
IndexMd == <<"index", ".md">>
ExamplePage == FileData(FrontMatter("", "homepage", "", 0), <<Block("h1", "Hello World")>>)
ExampleTemplate == TemplateFile("", FALSE, TRUE)
DefaultTemplate == TemplateFile("", FALSE, TRUE)
ExampleStaticAssetJs == "console.log('hello world')"

\* fs.mkdir('pages/'): the directory is created empty; when it exists the
\* call throws and safeExecute swallows the error.
MkdirPages(t) ==
    IF "pages" \in DOMAIN t THEN t
    ELSE [d \in DOMAIN t \cup {"pages"} |-> IF d = "pages" THEN <<>> ELSE t[d]]

\* fs.writeFile(`${dir}/${name}`, data) on the content tree: the file is
\* created, or its content replaced.
WritePage(t, dir, name, data) ==
    LET contents == t[dir]
    IN  [t EXCEPT ![dir] =
            IF HasFile(t, dir, name)
            THEN [k \in 1..Len(contents) |->
                    IF contents[k].name = name THEN FileEntry(name, data) ELSE contents[k]]
            ELSE Append(contents, FileEntry(name, data))]

\* The working directories a session starts in: an empty directory; a
\* project whose author wrote pages/index.md; projects with two posts in
\* pages/text, of equal or of different dates.
EmptyTree == [d \in {} |-> <<>>]
NoTemplates == [p \in {} |-> ComponentFile]
UserPage == FileData(FrontMatter("", "", "Mine", 0), BodyPlain)
UserTree ==
    [Tree(PlainRoot, <<>>) EXCEPT !["pages"] = Append(@, FileEntry(IndexMd, UserPage))]
PairListings ==
    {<<FileEntry(PostName(1), f), FileEntry(PostName(2), g)>> : f, g \in ListedPostFiles}
Workdirs ==
    {[tree |-> EmptyTree, project |-> Project({}, NoTemplates, NoFiles)]}
    \cup {[tree |-> t, project |-> WorkingProject] :
            t \in {UserTree} \cup {Tree(PlainRoot, text) : text \in PairListings}}

\* public/ as an earlier build of something else left it.
StalePublic == [q \in {"public/old.html"} |-> [kind |-> "static", content |-> "old"]]

\* The working directory as a process finds it (kept for the properties).
Before == [tree |-> tree, project |-> project, public |-> public]

\* How the running process ended and what it left (kept for the properties).
Ended ==
    [command |-> cli.command, status |-> status, exitCode |-> cli.exitCode,
     public |-> public]

InitCli ==
    /\ \E w \in Workdirs : tree = w.tree /\ project = w.project
    /\ public \in {EmptyDir, StalePublic}
    /\ postsPerPage \in 1..MaxPostsPerPage
    /\ status = "start"
    /\ stack = <<>>
    /\ page = FreshPages(tree)
    /\ blogPages = <<>>
    /\ bi = NoBlogIndex
    /\ \E c \in Commands :
            cli = [command |-> c, exitCode |-> 0, log |-> <<>>, pc |-> 0,
                   history |-> <<>>,
                   before |-> [tree |-> tree, project |-> project, public |-> public]]
    /\ dev = NoDev
    /\ http = NoHttp

\* The process has ended (its event loop is empty, it called process.exit
\* or an unhandled rejection ended it) and the next `teeny <command>` is
\* started in the directory it left.
StartProcess(command) ==
    /\ status \in {"done", "exited", "crashed"}
    /\ Len(cli.history) + 1 < MaxRuns
    /\ cli' = [Process(command) EXCEPT !.history = Append(cli.history, Ended),
                                       !.before = Before]
    /\ status' = "start"
    /\ stack' = <<>>
    /\ page' = FreshPages(tree)
    /\ blogPages' = <<>>
    /\ bi' = NoBlogIndex
    /\ UNCHANGED <<project, dev, http, tree, postsPerPage, public>>

\* default: console.log(`Command 'teeny ${command}' does not exist.`);
\* process.exit(1)
UnknownCommand ==
    /\ status = "start"
    /\ Dispatch(cli.command) = "default"
    /\ cli' = [cli EXCEPT
                !.log = Append(@, "Command 'teeny " \o cli.command \o "' does not exist."),
                !.exitCode = 1]
    /\ status' = "exited"
    /\ UNCHANGED <<project, dev, http, tree, postsPerPage, stack, page, blogPages, bi, public>>

\* case 'init': one of the three safeExecute(fs.mkdir) calls of init()
InitMkdir ==
    /\ Dispatch(cli.command) = "init"
    /\ status \in {"start", "init"}
    /\ cli.pc < 3
    /\ LET dir == <<"pages", "static", "templates">>[cli.pc + 1]
       IN  IF dir = "pages"
           THEN /\ tree' = MkdirPages(tree)
                /\ project' = project
           ELSE /\ tree' = tree
                /\ project' = [project EXCEPT !.dirs = @ \cup {dir}]
    /\ cli' = [cli EXCEPT !.pc = @ + 1]
    /\ status' = "init"
    /\ UNCHANGED <<dev, http, postsPerPage, stack, page, blogPages, bi, public>>

\* One of the four fs.writeFile calls of init(); after the last one init()
\* returns and the process ends.
InitWriteFile ==
    /\ status = "init"
    /\ cli.pc \in 3..6
    /\ CASE cli.pc = 3 ->
                /\ tree' = WritePage(tree, "pages", IndexMd, ExamplePage)
                /\ project' = project
         [] cli.pc = 4 ->
                /\ tree' = tree
                /\ project' = [project EXCEPT !.templates =
                                    WriteFile(@, "templates/homepage.html", ExampleTemplate)]
         [] cli.pc = 5 ->
                /\ tree' = tree
                /\ project' = [project EXCEPT !.templates =
                                    WriteFile(@, "templates/default.html", DefaultTemplate)]
         [] cli.pc = 6 ->
                /\ tree' = tree
                /\ project' = [project EXCEPT !.static =
                                    WriteFile(@, "main.js", ExampleStaticAssetJs)]
    /\ cli' = [cli EXCEPT !.pc = @ + 1]
    /\ status' = IF cli.pc = 6 THEN "done" ELSE "init"
    /\ UNCHANGED <<dev, http, postsPerPage, stack, page, blogPages, bi, public>>

NextCli ==
    \/ \E c \in Commands : StartProcess(c)
    \/ UnknownCommand
    \/ InitMkdir
    \/ InitWriteFile
    \/ Next

SpecCli == InitCli /\ [][NextCli]_vars


----------------------------------------------------------------------------
(* Properties of sessions (SpecCli).                                       *)

\* C11: a build that follows a completed build of the same, unchanged
\* inputs leaves the same output tree, files and contents, whatever the
\* interleaving of the page transforms was in either of them.
\* (A build changes neither pages/ nor templates/ nor static/, so two
\* consecutive builds of a session run on the same inputs.)
C11_RebuildSameOutput ==
    (/\ cli.command = "build"
     /\ status = "done"
     /\ cli.history # <<>>
     /\ Last(cli.history).command = "build"
     /\ Last(cli.history).status = "done")
        => public = Last(cli.history).public

\* The part of C11 that holds: the two builds write the same set of files.
C11_RebuildSameFiles ==
    (/\ cli.command = "build"
     /\ status = "done"
     /\ cli.history # <<>>
     /\ Last(cli.history).command = "build"
     /\ Last(cli.history).status = "done")
        => DOMAIN public = DOMAIN Last(cli.history).public

\* C12: a process started with a command the switch does not know prints
\* a message naming the command and exits with code 1; it runs nothing of
\* init, build or develop and leaves the working directory, public/
\* included, as it found it.
C12_UnknownCommandOnlyExits ==
    (cli.command \notin {"init", "build", "develop"} /\ status # "start")
        => /\ status = "exited"
           /\ cli.exitCode = 1
           /\ cli.log = <<"Command 'teeny " \o cli.command \o "' does not exist.">>
           /\ cli.pc = 0
           /\ stack = <<>>
           /\ page = FreshPages(tree)
           /\ blogPages = <<>>
           /\ bi = NoBlogIndex
           /\ [tree |-> tree, project |-> project, public |-> public] = cli.before

C12_Witness ==
    /\ cli.command = "serve"
    /\ status = "exited"
    /\ cli.exitCode = 1
    /\ public = StalePublic
    /\ "pages" \in DOMAIN tree

\* The working directory init leaves when it was run in an empty directory.
SeededTree == [d \in {"pages"} |-> <<FileEntry(IndexMd, ExamplePage)>>]
SeededProject ==
    Project({"static", "templates"},
            [p \in {"templates/homepage.html", "templates/default.html"} |-> ExampleTemplate],
            [f \in {"main.js"} |-> ExampleStaticAssetJs])

\* C17: in the directory that init made of an empty directory, a build
\* completes without error and leaves public/ with index.html and main.js.
C17_InitThenBuildSucceeds ==
    (/\ cli.command = "build"
     /\ cli.before.tree = SeededTree
     /\ cli.before.project = SeededProject
     /\ status \notin {"start", "building"})
        => /\ status = "done"
           /\ cli.exitCode = 0
           /\ "public/main.js" \in DOMAIN public
           \* `public/${targetPath}/${pageName}.html` with targetPath ""
           /\ \E q \in DOMAIN public : q \in {"public/index.html", "public//index.html"}

\* What such a build does leave: the copy of static/main.js and no page.
C17_OnlyStaticCopied ==
    (/\ cli.command = "build"
     /\ cli.before.tree = SeededTree
     /\ cli.before.project = SeededProject
     /\ status # "start")
        => /\ status # "done"
           /\ DOMAIN public = {"public/main.js"}

\* C20: init leaves a seed file that exists as it is: a pages/index.md
\* that was there when init started has the same content when init is done.
C20_InitKeepsExistingSeedFile ==
    (/\ cli.command = "init"
     /\ status = "done"
     /\ HasFile(cli.before.tree, "pages", IndexMd))
        => ReadFile(tree, <<<<"pages">>, IndexMd>>)
            = ReadFile(cli.before.tree, <<<<"pages">>, IndexMd>>)

\* The part of C20 that holds: init goes through in a directory that has
\* the three directories, and everything but the four seed files is as it
\* was.
C20_InitKeepsEverythingElse ==
    (cli.command = "init" /\ status = "done")
        => /\ cli.exitCode = 0
           /\ \A d \in DOMAIN cli.before.tree :
                /\ d \in DOMAIN tree
                /\ \A k \in 1..Len(cli.before.tree[d]) :
                        cli.before.tree[d][k].name # IndexMd
                            => tree[d][k] = cli.before.tree[d][k]
           /\ \A p \in DOMAIN cli.before.project.templates :
                p \notin {"templates/homepage.html", "templates/default.html"}
                    => project.templates[p] = cli.before.project.templates[p]
           /\ public = cli.before.public


----------------------------------------------------------------------------
(* The development server (startServer).  A request URL is a sequence of   *)
(* tokens in which "/", "." and "?" stand alone, so that url.includes('.') *)
(* is computed.                                                            *)

Urls ==
    {<<"/">>,
     <<"/", "about">>,
     <<"/", "missing">>,
     <<"/", "main", ".", "js">>,
     <<"/", "text", "/", "post1">>,
     <<"/", "v1", ".", "2", "/", "notes">>,
     <<"/", "about", "?", "v=2">>}

\* url.includes('.')
IncludesDot(url) == \E k \in 1..Len(url) : url[k] = "."

\* let filePath = url; if (url === '/') filePath = '/index.html'
\* else if (!url.includes('.')) filePath += '.html'
FilePath(url) ==
    IF url = <<"/">> THEN <<"/", "index", ".", "html">>
    ELSE IF ~IncludesDot(url) THEN url \o <<".", "html">>
    ELSE url

\* 'public' + filePath
ServedFile(url) == "public" \o Str(FilePath(url))

NotFoundBody == "<h1>404: Page not found</h1>"

\* The files a build can have left in public/: any of these pages and
\* assets.
PageFile(name) == [kind |-> "page", doctype |-> "html", title |-> name, content |-> <<>>]
PublicFiles ==
    {"public/index.html", "public/about.html", "public/main.js",
     "public/text/post1.html", "public/v1.2/notes.html"}
PublicDirs ==
    {[f \in files |-> IF f = "public/main.js"
                      THEN [kind |-> "static", content |-> ExampleStaticAssetJs]
                      ELSE PageFile(f)]
        : files \in SUBSET PublicFiles}

\* develop(port) has built public/ and started the server and the watcher.
Serving ==
    [NoDev EXCEPT !.phase = "watching", !.servers = 1, !.listeners = TRUE,
                  !.starts = 1, !.builds = 1]

InitServe ==
    /\ tree = Tree(PlainRoot, <<>>)
    /\ postsPerPage \in 1..MaxPostsPerPage
    /\ status = "done"
    /\ stack = <<>>
    /\ page = FreshPages(tree)
    /\ blogPages = <<>>
    /\ bi = NoBlogIndex
    /\ public \in PublicDirs
    /\ project = WorkingProject
    /\ cli = Process("develop")
    /\ dev = Serving
    /\ http = [u \in Urls |-> [state |-> "none"]]

\* The request listener up to its fs.readFile: the file path is computed
\* and the read started.
Request(url) ==
    /\ dev.servers > 0
    /\ http[url].state # "reading"
    /\ http' = [http EXCEPT ![url] = [state |-> "reading", file |-> ServedFile(url)]]
    /\ UNCHANGED <<project, cli, dev, tree, postsPerPage, status, stack, page, blogPages, bi, public>>

\* The callback of fs.readFile: 404 and the fixed body on an error, 200
\* and the data otherwise.
Respond(url) ==
    /\ http[url].state = "reading"
    /\ LET file == http[url].file
       IN  http' = [http EXCEPT ![url] =
                IF file \in DOMAIN public
                THEN [state |-> "answered", file |-> file, code |-> 200, body |-> public[file]]
                ELSE [state |-> "answered", file |-> file, code |-> 404, body |-> NotFoundBody]]
    /\ UNCHANGED <<project, cli, dev, tree, postsPerPage, status, stack, page, blogPages, bi, public>>

NextServe ==
    \/ \E url \in Urls : Request(url)
    \/ \E url \in Urls : Respond(url)

SpecServe == InitServe /\ [][NextServe]_vars

\* The path of a request URL: the URL up to its query string.
RECURSIVE PathOf(_)
PathOf(url) ==
    IF url = <<>> \/ Head(url) = "?" THEN <<>> ELSE <<Head(url)>> \o PathOf(Tail(url))

\* The last segment of a path: what follows its last "/".
RECURSIVE LastSegment(_)
LastSegment(path) ==
    IF path = <<>> \/ Last(path) = "/" THEN <<>>
    ELSE Append(LastSegment(Front(path)), Last(path))

\* The file the contract names for a request: index.html for "/", the
\* path with .html for a path whose last segment has no extension, the path
\* itself otherwise.
ContractFile(url) ==
    LET path == PathOf(url)
    IN  "public" \o Str(IF path = <<"/">> THEN <<"/", "index", ".", "html">>
                        ELSE IF ~IncludesDot(LastSegment(path)) THEN path \o <<".", "html">>
                        ELSE path)

Answered(url, file) ==
    IF file \in DOMAIN public
    THEN http[url].code = 200 /\ http[url].body = public[file]
    ELSE http[url].code = 404 /\ http[url].body = NotFoundBody

\* C16: every answered request was answered from the file the contract maps
\* its path to: public/index.html for "/", public<path>.html for a bare
\* path without an extension, public<path> otherwise; 200 with the file's
\* content when that file can be read, 404 with the fixed body otherwise.
C16_RequestMapping ==
    \A url \in DOMAIN http :
        http[url].state = "answered" => Answered(url, ContractFile(url))

\* The part of C16 that holds: a URL with no "." before its last segment
\* and no query string is answered as the contract says.
C16_PlainRequestMapping ==
    \A url \in DOMAIN http :
        (/\ http[url].state = "answered"
         /\ PathOf(url) = url
         /\ ~IncludesDot(SubSeq(url, 1, Len(url) - Len(LastSegment(url)))))
            => Answered(url, ContractFile(url))


----------------------------------------------------------------------------
(* The develop loop (develop and its change handler).                      *)
(*                                                                         *)
(* chokidar emits 'change' only while the watcher has its listener:        *)
(* watcher.close() marks the watcher closed and removes every listener     *)
(* before it returns its promise, and the handler calls it in its first    *)
(* synchronous stretch, so one watcher runs the handler at most once.      *)
(* A change made while no watcher is open raises no event at all.          *)

\* At most this many changes to the watched directories.
MaxChanges == 2

\* At most this many yml files in one directory of static/comments/.
MaxComments == 3

\* At most this many files in pages/photo.
MaxRolls == 2

\* The projects the loop runs on: two posts of the same date, and a post
\* beside a post whose template does not exist (its build fails).
DevTrees ==
    {Tree(PlainRoot, <<FileEntry(PostName(1), f), FileEntry(PostName(2), g)>>) :
        f \in {h \in ListedPostFiles : h.attributes.date = 20230101},
        g \in {h \in PostFiles : h.attributes.date = 20230101 /\ h.attributes.publish # "no"}}

InitDev ==
    /\ tree \in DevTrees
    /\ postsPerPage \in 1..MaxPostsPerPage
    /\ status = "start"
    /\ stack = <<>>
    /\ page = FreshPages(tree)
    /\ blogPages = <<>>
    /\ bi = NoBlogIndex
    /\ public = EmptyDir
    /\ project = WorkingProject
    /\ cli = Process("develop")
    /\ dev = NoDev
    /\ http = NoHttp

\* case 'develop': develop(port) up to the first suspension of build()
Develop ==
    /\ status = "start"
    /\ Dispatch(cli.command) = "develop"
    /\ dev.phase = "off"
    /\ StartBuild
    /\ dev' = [dev EXCEPT !.phase = "building", !.builds = @ + 1, !.built = dev.version]
    /\ UNCHANGED <<project, cli, http, tree, postsPerPage, page, bi>>

\* await build() resolved: startServer(port) listens and chokidar.watch
\* opens the watcher with its 'change' listener.
StartServer ==
    /\ status = "done"
    /\ dev.phase = "building"
    /\ dev' = [dev EXCEPT !.phase = "watching", !.servers = @ + 1, !.starts = @ + 1,
                          !.listeners = TRUE, !.pending = 0]
    /\ UNCHANGED <<project, cli, http, tree, postsPerPage, status, stack, page, blogPages,
                   bi, public>>

\* The environment modifies a file under pages/, static/ or templates/.
\* An open watcher notes it and will emit 'change'.
Change ==
    /\ dev.version < MaxChanges
    /\ ~Halted
    /\ dev' = [dev EXCEPT !.version = @ + 1,
                          !.pending = IF dev.listeners THEN @ + 1 ELSE @]
    /\ UNCHANGED <<project, cli, http, tree, postsPerPage, status, stack, page, blogPages,
                   bi, public>>

\* The watcher emits 'change' and the handler runs up to its first await:
\* console.log, server.close() (the server stops listening), and the call
\* of watcher.close(), which removes the listener and drops what the
\* watcher had still to emit.
ChangeHandler ==
    /\ dev.listeners
    /\ dev.pending > 0
    /\ dev' = [dev EXCEPT !.phase = "closing", !.servers = @ - 1, !.stops = @ + 1,
                          !.listeners = FALSE, !.pending = 0, !.handlers = @ + 1]
    /\ cli' = [cli EXCEPT !.log = Append(@, "Detected change. Restarting development server.")]
    /\ UNCHANGED <<project, http, tree, postsPerPage, status, stack, page, blogPages,
                   bi, public>>

\* await watcher.close() resolved: await develop(port), up to the first
\* suspension of its build().  Every processPage call of the build before
\* has settled; the new build makes its own.
Redevelop ==
    /\ dev.phase = "closing"
    /\ dev.handlers > 0
    /\ StartBuild
    /\ page' = FreshPages(tree)
    /\ bi' = NoBlogIndex
    /\ dev' = [dev EXCEPT !.phase = "building", !.handlers = @ - 1, !.builds = @ + 1,
                          !.built = dev.version]
    /\ UNCHANGED <<project, cli, http, tree, postsPerPage>>

NextDev ==
    \/ Develop
    \/ StartServer
    \/ Change
    \/ ChangeHandler
    \/ Redevelop
    \/ Pipeline

SpecDev == InitDev /\ [][NextDev]_vars

\* The loop is at rest: the server and the watcher are up and the watcher
\* has nothing to emit.  Nothing happens before the next change.
AtRest == dev.phase = "watching" /\ dev.pending = 0

\* C18: at most one build in progress and at most one server listening at
\* any time, and every change leads to exactly one server stop, one build
\* and one server start: when the loop is at rest it has stopped the server
\* once per change, and built and started the server once per change after
\* the first build and start.
C18_OneCyclePerChange ==
    /\ dev.handlers <= 1
    /\ dev.servers <= 1
    /\ dev.phase \in {"building", "closing"} => dev.servers = 0
    /\ AtRest => /\ dev.stops = dev.version
                 /\ dev.builds = dev.version + 1
                 /\ dev.starts = dev.version + 1

\* The part of C18 that holds: never two change handlers, never two
\* servers, no server and no handler while a build runs, and every change
\* the handler was run for led to exactly one stop, one build and one start.
C18_OneCyclePerHandledChange ==
    /\ dev.handlers <= 1
    /\ dev.servers <= 1
    /\ dev.phase \in {"building", "closing"} => dev.servers = 0
    /\ dev.phase = "building" => dev.handlers = 0
    /\ dev.builds = dev.stops + (IF dev.phase \in {"off", "closing"} THEN 0 ELSE 1)
    /\ dev.starts = dev.stops + (IF dev.phase = "watching" THEN 1 ELSE 0)

\* C19: every change to the watched directories is followed by a build
\* that starts after it: when the loop is at rest, where no build starts
\* unless another change is made, the latest build started after the
\* latest change.
C19_EveryChangeIsBuilt ==
    AtRest => dev.built = dev.version


----------------------------------------------------------------------------
(* Properties of the walk and of the collection (Spec).                    *)

\* A processPage call that was started and has neither returned nor thrown.
InFlight(q) == page[q].pc \in {"running", "writing"}

\* Every content file the walker hands to processPage has had its
\* transform, and the transform is over.
WholeTreeTransformed ==
    \A q \in DOMAIN page :
        ShouldDispatch(Last(page[q].pagePath)) => page[q].pc \in {"done", "skipped"}

AggregationRunning == bi.phase \in {"sorted", "template", "post", "index"}

\* C21: in one build blogIndex is invoked exactly once, after every page
\* transform of the whole tree has completed, and public/CNAME is written
\* only after that aggregation has returned: a step that invokes blogIndex
\* is the first such step and finds the whole tree transformed, and a step
\* that writes CNAME finds the aggregation returned and does so once.
C21_AggregationOnceAtEnd ==
    [][/\ (bi'.phase = "sorted" /\ bi.phase # "sorted")
            => (bi.phase = "idle" /\ WholeTreeTransformed)
       /\ ("public/CNAME" \in DOMAIN public' /\ stack' # stack /\ status = "building"
           /\ Len(stack') < Len(stack))
            => (bi.phase = "returned" /\ "public/CNAME" \notin DOMAIN public)]_vars

\* The part of C21 that holds: the last invocation of blogIndex, by the
\* activation for pages/, comes after every transform of the tree, and the
\* build resolves only after CNAME was written after it.
C21_LastAggregationAtEnd ==
    /\ (Len(stack) = 1 /\ stack[1].phase \in {"blogIndex", "cname"}) => WholeTreeTransformed
    /\ status = "done" => (bi.phase = "returned" /\ "public/CNAME" \in DOMAIN public)

\* C22: while a subdirectory of a directory is walked or aggregated, no
\* page transform started for a file of that directory is still in flight,
\* and no transform at all is in flight while an aggregation runs.
C22_JoinedBeforeSubdirectory ==
    /\ \A k \in 1..(Len(stack) - 1) :
            \A j \in 1..Len(stack[k].processPagePromises) :
                ~InFlight(stack[k].processPagePromises[j])
    /\ AggregationRunning => \A q \in DOMAIN page : ~InFlight(q)

\* The part of C22 that holds: the transforms of a directory's own files
\* are over when that directory's own aggregation starts.
C22_JoinedBeforeOwnAggregation ==
    (status = "building" /\ stack # <<>> /\ Top.phase \in {"blogIndex", "cname"})
        => \A j \in 1..Len(Top.processPagePromises) : Settled(Top.processPagePromises[j])

\* C23: no step appends to blogPages while blogIndex is running (between
\* its sort, the first read, and its return).
C23_NoAppendDuringAggregation ==
    [][Len(blogPages') > Len(blogPages) => ~AggregationRunning]_vars

\* The part of C23 that holds: without a subdirectory in pages/text, an
\* aggregation starts with every collected page already appended.
C23_NoAppendWithoutSubdirectory ==
    [][(Len(blogPages') > Len(blogPages) /\ FlatCollectedDir) => ~AggregationRunning]_vars

\* What an append during the aggregation does: the copy blogIndex works on
\* is taken from a collection that grew after the sort, so it is not
\* sorted by date.
C23_CopyIsSorted ==
    \A i, j \in 1..Len(bi.originalBlogPages) :
        (i < j /\ bi.originalBlogPages[i].frontmatter.date # 0
               /\ bi.originalBlogPages[j].frontmatter.date # 0)
            => bi.originalBlogPages[i].frontmatter.date
                    >= bi.originalBlogPages[j].frontmatter.date

\* The slugs of pages/text and the date of each in its front matter.
Slugs ==
    {Str(SplitMd0(tree["pages/text"][k].name)) :
        k \in {j \in 1..Len(tree["pages/text"]) : ~tree["pages/text"][j].isDirectory}}
DateOfSlug(pageName) ==
    tree["pages/text"][DiscoveryIndex(pageName)].data.attributes.date
SlugOfHref(href) == CHOOSE n \in Slugs : PostHref(n) = href

\* The posts an index page links to, in the order of its excerpts.
RECURSIVE LinkedSlugs(_)
LinkedSlugs(content) ==
    IF content = <<>> THEN <<>>
    ELSE IF Head(content).tag = "h2" /\ Head(content).href # ""
         THEN <<SlugOfHref(Head(content).href)>> \o LinkedSlugs(Tail(content))
         ELSE LinkedSlugs(Tail(content))

\* C24: whatever the order in which the transforms completed, equal-date
\* posts stand in listing order in what the build wrote: the excerpts of an
\* index page list them in that order, the Older link of a post leads to a
\* post listed after it and the Newer link to a post listed before it.
C24_OutputsInDiscoveryOrder ==
    /\ \A f \in IndexFiles :
        LET slugs == LinkedSlugs(public[f].content)
        IN  \A i, j \in 1..Len(slugs) :
                (i < j /\ DateOfSlug(slugs[i]) = DateOfSlug(slugs[j]))
                    => DiscoveryIndex(slugs[i]) < DiscoveryIndex(slugs[j])
    /\ \A a, b \in Slugs :
        (/\ PostFilePath(a) \in DOMAIN public
         /\ public[PostFilePath(a)].kind = "post"
         /\ DateOfSlug(a) = DateOfSlug(b))
            => /\ public[PostFilePath(a)].older = PostHref(b)
                    => DiscoveryIndex(a) < DiscoveryIndex(b)
               /\ public[PostFilePath(a)].newer = PostHref(b)
                    => DiscoveryIndex(b) < DiscoveryIndex(a)

\* The part of C24 that holds: without a subdirectory in pages/text, posts
\* of different dates are linked and listed newest first in every
\* interleaving.
C24_OutputsByDate ==
    FlatCollectedDir =>
    /\ \A f \in IndexFiles :
        LET slugs == LinkedSlugs(public[f].content)
        IN  \A i, j \in 1..Len(slugs) :
                (i < j /\ DateOfSlug(slugs[i]) # 0 /\ DateOfSlug(slugs[j]) # 0)
                    => DateOfSlug(slugs[i]) >= DateOfSlug(slugs[j])
    /\ \A a, b \in Slugs :
        (/\ PostFilePath(a) \in DOMAIN public
         /\ public[PostFilePath(a)].kind = "post"
         /\ DateOfSlug(a) # 0 /\ DateOfSlug(b) # 0)
            => /\ public[PostFilePath(a)].older = PostHref(b)
                    => DateOfSlug(a) >= DateOfSlug(b)
               /\ public[PostFilePath(a)].newer = PostHref(b)
                    => DateOfSlug(b) >= DateOfSlug(a)


----------------------------------------------------------------------------
(* Properties of the collection over the builds of one process (SpecDev).  *)

\* The slugs of the pages whose transform pushed in the current build, of
\* the entries of blogPages, and of the posts the current build has written
\* (build() empties public/ when it starts).
PushedSlugs == {PageName(page[q].pagePath) : q \in {r \in DOMAIN page : page[r].pushes > 0}}
CollectionSlugs == {blogPages[k].pageName : k \in 1..Len(blogPages)}
WrittenPostSlugs ==
    {n \in PushedSlugs : PostFilePath(n) \in DOMAIN public}

----------------------------------------------------------------------------
(* Properties of what the aggregation writes (Spec).                       *)

\* How often the excerpt of a post stands in the content of an index page.
Occurrences(slugs, n) == Cardinality({k \in 1..Len(slugs) : slugs[k] = n})

\* The post has its file at public/text/<slug>.html and its excerpt once in
\* exactly one index page.
PostAndExcerptOnce(n) ==
    /\ PostFilePath(n) \in DOMAIN public
    /\ public[PostFilePath(n)].kind = "post"
    /\ public[PostFilePath(n)].pageName = n
    /\ Cardinality({f \in IndexFiles : Occurrences(LinkedSlugs(public[f].content), n) > 0}) = 1
    /\ \A f \in IndexFiles : Occurrences(LinkedSlugs(public[f].content), n) <= 1

\* C26: when the build has completed, every collected page has its post
\* file at public/text/<slug>.html and its excerpt once in exactly one
\* index page: none is left out, none stands twice.
C26_EveryPostAndExcerptOnce ==
    status = "done" => \A n \in PushedSlugs : PostAndExcerptOnce(n)

\* The part of C26 that holds: it is so when pages/text has no
\* subdirectory.
C26_FlatEveryPostAndExcerptOnce ==
    (status = "done" /\ FlatCollectedDir) => \A n \in PushedSlugs : PostAndExcerptOnce(n)


\* The file a link of the site leads to: the href is a path without
\* extension, served from public<href>.html.
Resolve(href) == "public" \o href \o ".html"

\* The link leads to index page k, written by this build.
LeadsToIndexPage(href, k) ==
    /\ Resolve(href) \in IndexFiles
    /\ public[Resolve(href)].pageCount = k

\* The link leads to the file of a post, written by this build at
\* public/text/<slug>.html.
LeadsToPost(href) ==
    /\ Resolve(href) \in DOMAIN public
    /\ public[Resolve(href)].kind = "post"
    /\ Resolve(href) = PostFilePath(public[Resolve(href)].pageName)

\* C27: when the build has completed, index page 1 is at public/text.html
\* and index page N > 1 at public/text/N.html, and every link the
\* aggregation emitted leads to a file of this build: on index page k of T
\* forward leads to page k+1, end to page T, back to page k-1 (public/text.html
\* for k = 2), begin to public/text.html; every link of an excerpt and every
\* Newer and Older link leads to the file of a post.
C27_PathsAndLinksResolve ==
    status = "done" =>
        LET T == Cardinality(IndexFiles)
        IN  /\ \A f \in IndexFiles :
                LET k == public[f].pageCount
                    c == public[f].pagination
                IN  /\ f = IF k = 1 THEN "public/text.html"
                                    ELSE "public/text/" \o ToString(k) \o ".html"
                    /\ k \in 1..T
                    /\ c.forward.href # "" => LeadsToIndexPage(c.forward.href, k + 1)
                    /\ c.end.href # "" => LeadsToIndexPage(c.end.href, T)
                    /\ c.back.href # "" =>
                            /\ LeadsToIndexPage(c.back.href, k - 1)
                            /\ k = 2 => Resolve(c.back.href) = "public/text.html"
                    /\ c.begin.href # "" =>
                            /\ LeadsToIndexPage(c.begin.href, 1)
                            /\ Resolve(c.begin.href) = "public/text.html"
                    /\ k < T => c.forward.href # "" /\ c.end.href # ""
                    /\ k > 1 => c.back.href # "" /\ c.begin.href # ""
                    /\ \A j \in 1..Len(public[f].content) :
                            public[f].content[j].href # ""
                                => LeadsToPost(public[f].content[j].href)
            /\ \A f \in DOMAIN public :
                public[f].kind = "post" =>
                    /\ public[f].newer # "" => LeadsToPost(public[f].newer)
                    /\ public[f].older # "" => LeadsToPost(public[f].older)

\* Three posts at one per page: index pages 1, 2 and 3, a post with both a
\* Newer and an Older link.
C27_Witness ==
    /\ status = "done"
    /\ IndexFiles = {"public/text.html", "public/text/2.html", "public/text/3.html"}
    /\ public["public/text/2.html"].pagination.back.href = "/text"
    /\ public["public/text/3.html"].pagination.back.href = "/text/2"
    /\ \E f \in DOMAIN public :
            public[f].kind = "post" /\ public[f].newer # "" /\ public[f].older # ""


\* A file directly under public/, not under public/text/.
TopLevel(f) == f \notin {PostFilePath(n) : n \in Slugs} /\ f \notin IndexFiles

\* C30: when the build has completed, the post of the most recent
\* collected page (the one without a Newer link) stands at its own path
\* and, with the same content, at a top-level alias path.
C30_MostRecentPostAtAlias ==
    status = "done" =>
        \A f \in DOMAIN public :
            (public[f].kind = "post" /\ public[f].newer = "")
                => \E g \in DOMAIN public : TopLevel(g) /\ public[g] = public[f]

\* What the aggregation does: every post is written at
\* public/text/<slug>.html and nowhere else.
C30_PostsOnlyAtOwnPath ==
    \A f \in DOMAIN public :
        public[f].kind = "post" => f = PostFilePath(public[f].pageName)

-----------------------------------------------------------------------------
(* Comment threads: one build of a project with a directory of             *)
(* static/comments/.                                                       *)
(*                                                                         *)
(* The project has two posts; post1 is the newer one, so blogIndex renders *)
(* it first, and static/comments/post1/ holds up to MaxComments yml files. *)
(* The k-th file listed has the _id c<k>; its replying_to_uid is absent,   *)
(* or the _id of a file listed before it, or the _id of the file listed    *)
(* next after it, or an _id no file has.                                   *)

CommentId(k) == "c" \o ToString(k)
ReplyTargets(k, n) ==
    {""} \cup {CommentId(j) : j \in 1..(k - 1)}
         \cup {CommentId(j) : j \in {k + 1} \cap 1..n}
         \cup {"gone"}
CommentListings ==
    UNION {{[k \in 1..n |-> Comment(CommentId(k), r[k])] :
                r \in {f \in [1..n -> UNION {ReplyTargets(k, n) : k \in 1..n}] :
                            \A k \in 1..n : f[k] \in ReplyTargets(k, n)}} :
                n \in 0..MaxComments}

\* The working directories: no directory for post1 in static/comments/, or
\* one with any of the listings.
CommentProjects ==
    {WorkingProject}
    \cup {[WorkingProject EXCEPT !.comments = [slug \in {"post1"} |-> l]] :
                l \in CommentListings}

\* post1 of 2 January beside post2 of 1 January; post2 is a post, or a page
\* whose template does not exist (then the build fails before blogIndex,
\* whatever the comments are, and the project has none).
CommentTrees ==
    {Tree(PlainRoot,
          <<FileEntry(PostName(1), FileData(FrontMatter("", "post", "T", 20230102), BodyMore)),
            FileEntry(PostName(2), g)>>) :
        g \in {h \in PostFiles : h.attributes.date = 20230101}}

InitComments ==
    /\ tree \in CommentTrees
    /\ postsPerPage \in 1..MaxPostsPerPage
    /\ status = "start"
    /\ stack = <<>>
    /\ page = FreshPages(tree)
    /\ blogPages = <<>>
    /\ bi = NoBlogIndex
    /\ public = EmptyDir
    /\ project \in CommentProjects
    /\ tree["pages/text"][2].data.attributes.template = "post"
            \/ project = WorkingProject
    /\ cli = Process("build")
    /\ dev = NoDev
    /\ http = NoHttp

SpecComments == InitComments /\ [][Next]_vars

-----------------------------------------------------------------------------
(* The comment thread of a post (blogIndex, the comments block).           *)

\* Every reply of the listing names a comment listed before it.
ParentsFirst(l) ==
    \A k \in 1..Len(l) :
        l[k].replying_to_uid # "" =>
            \E j \in 1..(k - 1) : l[j].id = l[k].replying_to_uid

\* The place of the comment with this uid in the listing and in the thread.
ListedAt(l, uid) == CHOOSE k \in 1..Len(l) : l[k].id = uid
RenderedAt(thread, uid) == CHOOSE k \in 1..Len(thread) : thread[k].uid = uid

\* Every comment of the listing is rendered once, a reply as nested.
RenderedOnce(l, thread) ==
    /\ Len(thread) = Len(l)
    /\ \A k \in 1..Len(l) :
            \E p \in 1..Len(thread) : thread[p] = CommentArticle(l[k])

\* The comments without replying_to_uid stand in the order of the listing.
TopLevelInListingOrder(l, thread) ==
    \A i, j \in 1..Len(l) :
        i < j /\ l[i].replying_to_uid = "" /\ l[j].replying_to_uid = ""
            => RenderedAt(thread, l[i].id) < RenderedAt(thread, l[j].id)

\* The written posts that have a directory in static/comments/ whose
\* replies all come after their parents.
ThreadedPosts ==
    {slug \in DOMAIN project.comments :
        /\ PostFilePath(slug) \in DOMAIN public
        /\ ParentsFirst(project.comments[slug])}

\* A stronger statement than C28, which does not hold: in the finished
\* thread every reply is still the element immediately following its parent.
\* A second reply to the same comment is placed between the comment and its
\* first reply.
C28_ReplyStaysNextToParent ==
    \A slug \in ThreadedPosts :
        LET l      == project.comments[slug]
            thread == public[PostFilePath(slug)].comments
        IN  /\ RenderedOnce(l, thread)
            /\ TopLevelInListingOrder(l, thread)
            /\ \A k \in 1..Len(l) :
                    l[k].replying_to_uid # "" =>
                        RenderedAt(thread, l[k].id)
                            = RenderedAt(thread, l[k].replying_to_uid) + 1

\* The thread as it stands when the k-th file of the listing has just been
\* handled: the first k comments of the finished thread, in their order
\* there (no call moves or removes an article already in the list).
ThreadAfter(l, thread, k) ==
    SelectSeq(thread, LAMBDA a : ListedAt(l, a.uid) <= k)

\* C28: in the thread of a written post whose comment directory lists every
\* parent before its replies, every comment is rendered once, the comments
\* without replying_to_uid stand in the order of the listing, and every
\* reply is placed as the element immediately following the comment whose
\* id is its replying_to_uid: when it has been placed it is the next
\* element after that comment, and in the finished thread only comments
\* listed after the reply stand between the two.
C28_ReplyPlacedNextToParent ==
    \A slug \in ThreadedPosts :
        LET l      == project.comments[slug]
            thread == public[PostFilePath(slug)].comments
        IN  /\ RenderedOnce(l, thread)
            /\ TopLevelInListingOrder(l, thread)
            /\ \A k \in 1..Len(l) :
                    l[k].replying_to_uid # "" =>
                        LET then == ThreadAfter(l, thread, k)
                            r    == RenderedAt(thread, l[k].id)
                            p    == RenderedAt(thread, l[k].replying_to_uid)
                        IN  /\ RenderedAt(then, l[k].id)
                                    = RenderedAt(then, l[k].replying_to_uid) + 1
                            /\ p < r
                            /\ \A m \in (p + 1)..(r - 1) :
                                    ListedAt(l, thread[m].uid) > k

\* Two replies to c1: the later one stands between c1 and the earlier one.
C28_Witness ==
    /\ "post1" \in ThreadedPosts
    /\ project.comments["post1"]
            = <<Comment("c1", ""), Comment("c2", "c1"), Comment("c3", "c1")>>
    /\ public[PostFilePath("post1")].comments
            = <<[uid |-> "c1", nested |-> FALSE], [uid |-> "c3", nested |-> TRUE],
                [uid |-> "c2", nested |-> TRUE]>>


\* The posts whose comment directory holds a reply to a comment that is
\* not listed before it, once blogIndex has been called.
DanglingPosts ==
    {slug \in DOMAIN project.comments :
        ~ParentsFirst(project.comments[slug]) /\ bi.phase # "idle"}

\* C29: a reply whose replying_to_uid matches no comment rendered before it
\* raises no error: blogIndex does not throw, the build does not fail, and
\* the build that ends has written the post of every collected page and the
\* first index page.
C29_DanglingReplyRaisesNoError ==
    DanglingPosts # {} =>
        /\ bi.phase # "threw"
        /\ status \notin {"failed", "crashed"}
        /\ status = "done" =>
                /\ \A n \in PushedSlugs : PostFilePath(n) \in DOMAIN public
                /\ IndexFilePath(1) \in DOMAIN public

\* What the build does instead: querySelector returns null, the call of
\* after on it throws inside forEach, blogIndex rejects and the build never
\* completes; the post with the comments is not written, and here, where
\* it is the first post of the first batch, neither is any other post,
\* any index page or public/CNAME.
C29_DanglingReplyEndsBuild ==
    DanglingPosts # {} =>
        /\ status # "done"
        /\ \A n \in PushedSlugs : PostFilePath(n) \notin DOMAIN public
        /\ IndexFiles = {}
        /\ "public/CNAME" \notin DOMAIN public

-----------------------------------------------------------------------------
(* The excerpt and the post of a collected page (blogIndex, the for loop). *)

\* The page-content of the document a collected page pushed, before
\* blogIndex touched it.
PushedContent(n) ==
    LET q == CHOOSE r \in DOMAIN page :
                page[r].pushes > 0 /\ PageName(page[r].pagePath) = n
    IN  ProcessPage(project.templates, page[q].pagePath,
                    ReadFile(tree, page[q].pagePath)).document.content

\* The places of an index page where the excerpt of the post n starts: its
\* heading, linked to the post.
ExcerptStarts(x, n) ==
    {s \in 1..Len(public[x].content) :
        /\ public[x].content[s].tag = "h2"
        /\ public[x].content[s].href = PostHref(n)}

\* C31: for every collected page with a Read more marker, the excerpt in an
\* index page is the page's content up to the marker's paragraph, with the
\* heading and the marker linked to the post, and no index page holds an
\* element that followed the marker; the post written for the page holds
\* all the content before and after the marker unchanged (its heading
\* without link) and not the marker's paragraph.
C31_ExcerptOnCloneOnly ==
    \A n \in WrittenPostSlugs :
        LET orig == PushedContent(n)
            h2   == FirstTag(orig, "h2")
            rm   == FirstClass(orig, "readmore")
            post == public[PostFilePath(n)].content
        IN  /\ rm > 0
            /\ post = SubSeq(orig, 1, rm - 1) \o SubSeq(orig, rm + 1, Len(orig))
            /\ \A k \in 1..Len(post) :
                    /\ post[k].class # "readmore"
                    /\ post[k].tag = "h2" => post[k].href = ""
            /\ \A x \in IndexFiles :
                    /\ \A s \in ExcerptStarts(x, n) :
                            /\ s + rm - h2 <= Len(public[x].content)
                            /\ \A j \in 1..rm :
                                    public[x].content[s + j - h2]
                                        = IF j \in {h2, rm}
                                          THEN [orig[j] EXCEPT !.href = PostHref(n)]
                                          ELSE orig[j]
                            /\ s + rm - h2 < Len(public[x].content)
                                    => public[x].content[s + rm - h2 + 1].tag = "h2"
                    /\ \A j \in (rm + 1)..Len(orig), k \in 1..Len(public[x].content) :
                            public[x].content[k] # orig[j]

\* A build has written the post of post1 with the paragraph that followed
\* the marker, and an index page with its excerpt.
C31_Witness ==
    /\ status = "done"
    /\ "post1" \in WrittenPostSlugs
    /\ \E k \in 1..Len(public[PostFilePath("post1")].content) :
            public[PostFilePath("post1")].content[k] = Elem("p", "", "rest", "")
    /\ \E x \in IndexFiles : ExcerptStarts(x, "post1") # {}

-----------------------------------------------------------------------------
(* The gallery: one build of a project with a directory pages/photo.       *)
(*                                                                         *)
(* pages/ lists .blogIndex.md, about.md, photo and text; pages/text holds  *)
(* one post, pages/photo the files roll1.md .. roll<n>.md in the order of  *)
(* the listing.  A gallery page is published or not, uses the default      *)
(* template or one that does not exist, and has no title, its file name    *)
(* without .md as title, the name of another file, or a title that is no   *)
(* file name.                                                              *)

RollName(k) == <<"roll" \o ToString(k), ".md">>
RollTitles == {""} \cup {RollId(RollName(k)) : k \in 1..MaxRolls} \cup {"Summer"}
RollFiles ==
    {FileData(FrontMatter(publish, "", title, 0), BodyPlain) :
        publish \in {"", "no"}, title \in RollTitles}
    \cup {FileData(FrontMatter("", "ghost", "roll1", 0), BodyPlain)}
RollListings ==
    UNION {{[k \in 1..n |-> FileEntry(RollName(k), f[k])] : f \in [1..n -> RollFiles]} :
                n \in 0..MaxRolls}

GalleryTree(photo) ==
    [d \in {"pages", "pages/photo", "pages/text"} |->
        CASE d = "pages" ->
                <<FileEntry(<<".", "blogIndex", ".md">>, NoData),
                  FileEntry(<<"about", ".md">>, PlainRoot),
                  DirEntry(<<"photo">>),
                  DirEntry(<<"text">>)>>
          [] d = "pages/photo" -> photo
          [] d = "pages/text" ->
                <<FileEntry(PostName(1),
                            FileData(FrontMatter("", "post", "T", 20230101), BodyMore))>>]

InitGallery ==
    /\ tree \in {GalleryTree(photo) : photo \in RollListings}
    /\ postsPerPage \in 1..MaxPostsPerPage
    /\ status = "start"
    /\ stack = <<>>
    /\ page = FreshPages(tree)
    /\ blogPages = <<>>
    /\ bi = NoBlogIndex
    /\ public = EmptyDir
    /\ project = WorkingProject
    /\ cli = Process("build")
    /\ dev = NoDev
    /\ http = NoHttp

SpecGallery == InitGallery /\ [][Next]_vars


\* The files of pages/photo that are published.
PublishedRolls ==
    {k \in 1..Len(tree["pages/photo"]) :
        tree["pages/photo"][k].data.attributes.publish # "no"}

\* The gallery pages whose call wrote twice: their own file and the alias.
AliasWriters ==
    {q \in DOMAIN page : TargetPath(page[q].pagePath) = GalleryDir /\ page[q].writes = 2}

\* C32: a completed build whose pages/photo holds a published page has
\* written public/photo.html; exactly one gallery page wrote it, the first
\* of the reverse-sorted listing, and the alias has the content of that
\* page's own file public/photo/<pageName>.html.
C32_LatestRollAtAlias ==
    (status = "done" /\ "pages/photo" \in DOMAIN tree /\ PublishedRolls # {}) =>
        /\ GalleryAlias \in DOMAIN public
        /\ Cardinality(AliasWriters) = 1
        /\ \A q \in AliasWriters : Last(page[q].pagePath) = RollListSorted[1]
        /\ PageFilePath(GalleryDir, RollId(RollListSorted[1])) \in DOMAIN public
        /\ public[GalleryAlias] = public[PageFilePath(GalleryDir, RollId(RollListSorted[1]))]

\* What the build does: a gallery page writes the alias exactly when it is
\* published and its title followed by ".md" is the first name of the
\* reverse-sorted listing, whichever file it is itself; the alias then has
\* the content of the own file of such a page.
C32_AliasByTitle ==
    (status = "done" /\ "pages/photo" \in DOMAIN tree) =>
        /\ \A q \in DOMAIN page :
                TargetPath(page[q].pagePath) = GalleryDir =>
                    LET attributes == ReadFile(tree, page[q].pagePath).attributes
                    IN  q \in AliasWriters
                            <=> /\ attributes.publish # "no"
                                /\ attributes.title # ""
                                /\ attributes.title \o ".md" = Str(RollListSorted[1])
        /\ GalleryAlias \in DOMAIN public <=> AliasWriters # {}
        /\ GalleryAlias \in DOMAIN public =>
                \E q \in AliasWriters :
                    public[GalleryAlias]
                        = public[PageFilePath(GalleryDir, PageName(page[q].pagePath))]

-----------------------------------------------------------------------------
(* The walker's dispatch (processDirectory).                               *)

\* The content files at this depth: 1 for the files of pages/.
FilesAtDepth(d) == {q \in DOMAIN page : Len(page[q].pagePath) = d + 1}

\* C33: processPage is never called for a file whose name starts with "."
\* and never twice for the same file; when the build has completed it was
\* called exactly once for every other file of the content tree, in pages/
\* and in every directory below it.
C33_DispatchedExactlyOnce ==
    /\ \A q \in DOMAIN page :
            /\ page[q].calls <= 1
            /\ StartsWithDot(Last(page[q].pagePath)) => page[q].calls = 0
            /\ page[q].calls = 0 <=> page[q].pc = "none"
    /\ status = "done" =>
            \A q \in DOMAIN page :
                ~StartsWithDot(Last(page[q].pagePath)) => page[q].calls = 1

\* A completed build with .blogIndex.md not dispatched, a file of pages/
\* and two files of pages/text dispatched, one of them listed after the
\* subdirectory.
C33_Witness ==
    /\ status = "done"
    /\ page["pages/.blogIndex.md"].calls = 0
    /\ \E q \in FilesAtDepth(1) : page[q].calls = 1
    /\ Cardinality({q \in FilesAtDepth(2) : page[q].calls = 1}) = 2
    /\ tree["pages/text"][2].isDirectory

-----------------------------------------------------------------------------
(* The date step of processPage.                                           *)

\* The dispatched pages with a date that are published and use the default
\* template, which has every element the transform looks for.
DatedPages ==
    {q \in DOMAIN page :
        /\ page[q].pc \notin {"none", "running"}
        /\ AttributesOf(q).date # 0
        /\ AttributesOf(q).publish # "no"
        /\ AttributesOf(q).template = ""}

\* The date span is the element right after the first h2 of the content.
DateAfterFirstHeading(content) ==
    LET h2 == FirstTag(content, "h2")
    IN  /\ h2 > 0
        /\ h2 < Len(content)
        /\ h2 + 1 \in DateSpans(content)

\* C34: the transform of a page with a date succeeds, with or without a
\* title, and the document it emits has the date span right after its
\* first h2.
C34_DatedPageEmitted ==
    \A q \in DatedPages :
        /\ page[q].pc # "failed"
        /\ page[q].html.kind = "page" => DateAfterFirstHeading(page[q].html.content)

\* What holds: it is so for the pages whose document has an h2, from the
\* title or from a heading of the body; the transform of a page with a date
\* and neither fails.
C34_DatedPageWithHeadingEmitted ==
    \A q \in DatedPages :
        IF AttributesOf(q).title # ""
           \/ \E k \in 1..Len(ReadFile(tree, page[q].pagePath).body) :
                    ReadFile(tree, page[q].pagePath).body[k].kind = "heading"
        THEN /\ page[q].pc # "failed"
             /\ page[q].html.kind = "page" => DateAfterFirstHeading(page[q].html.content)
        ELSE page[q].pc = "failed"

-----------------------------------------------------------------------------
(* The comment form of a post (blogIndex).                                 *)

\* The address of the site, and of the file a build writes at public/<path>.
SiteUrl(path) == "https://jasonhallen.com/" \o path

\* C35: the permalink in the comment form of a written post is the address
\* of the post's own file, <collectedDir>/<slug>.html, the path blogIndex
\* writes the post at and the links to the post lead to.
C35_PermalinkIsPostPath ==
    \A n \in WrittenPostSlugs :
        /\ PostFilePath(n) = "public/" \o CollectedDir \o "/" \o n \o ".html"
        /\ Resolve(PostHref(n)) = PostFilePath(n)
        /\ public[PostFilePath(n)].permalink
                = SiteUrl(CollectedDir \o "/" \o n \o ".html")

\* What the build writes: the permalink names blog/<slug>.html, where the
\* build writes nothing; the post and its links are at text/<slug>.html.
C35_PermalinkInBlog ==
    \A n \in WrittenPostSlugs :
        /\ Resolve(PostHref(n)) = PostFilePath(n)
        /\ public[PostFilePath(n)].permalink = SiteUrl("blog/" \o n \o ".html")
        /\ "public/blog/" \o n \o ".html" \notin DOMAIN public

-----------------------------------------------------------------------------
(* Termination of the aggregation loop (blogIndex, while).                 *)
(*                                                                         *)
(* Every step of the model is the continuation of an await on a file       *)
(* operation or a promise; the operations complete and Node's event loop   *)
(* runs every continuation that is ready, so a step that can be taken is   *)
(* taken in the end.                                                       *)

\* The builds whose termination is checked: up to MaxPosts posts of one
\* date in pages/text, the first before an empty subdirectory or none; and
\* a post beside a page whose template does not exist.
LoopListings ==
    {[k \in 1..n |-> FileEntry(PostName(k),
                        FileData(FrontMatter("", "post", "T", 20230101), BodyMore))] :
        n \in 0..MaxPosts}
LoopTrees ==
    {Tree(PlainRoot, l) : l \in LoopListings}
    \cup {Tree(PlainRoot, <<l[1], DirEntry(<<"sub">>)>> \o Tail(l)) :
                l \in {m \in LoopListings : Len(m) \in 1..2}}
    \cup {Tree(PlainRoot, <<FileEntry(PostName(1),
                                FileData(FrontMatter("", "post", "T", 20230101), BodyMore)),
                            FileEntry(PostName(2),
                                FileData(FrontMatter("", "ghost", "T", 20230101), BodyMore))>>)}

InitFair ==
    /\ tree \in LoopTrees
    /\ postsPerPage \in 1..MaxPostsPerPage
    /\ status = "start"
    /\ stack = <<>>
    /\ page = FreshPages(tree)
    /\ blogPages = <<>>
    /\ bi = NoBlogIndex
    /\ public = EmptyDir
    /\ project = WorkingProject
    /\ cli = Process("build")
    /\ dev = NoDev
    /\ http = NoHttp

\* The steps other than the body of a processPage call.
OtherSteps ==
    \/ Build
    \/ WalkEntry
    \/ WalkJoin
    \/ WalkJoinRejected
    \/ UnhandledRejection
    \/ CnameWritten
    \/ \E q \in DOMAIN page : PageWritten(q)
    \/ BlogIndexCopy
    \/ BlogIndexBatch
    \/ BlogIndexPostWritten
    \/ BlogIndexPageWritten

\* A processPage call can go on: it is suspended in its reads and the
\* process lives.  It went on: a running call is no longer running.
PageTransformReady == ~Halted /\ \E q \in DOMAIN page : page[q].pc = "running"
PageTransformed == \E q \in DOMAIN page : page[q].pc = "running" /\ page'[q].pc # "running"

\* Weak fairness of the steps; for the page transforms it is written out,
\* with the condition under which one can be taken in place of ENABLED.
SpecFair ==
    /\ InitFair /\ [][Next]_vars
    /\ WF_vars(OtherSteps)
    /\ ([]<>(~PageTransformReady) \/ []<><<PageTransformed>>_vars)

Min(a, b) == IF a < b THEN a ELSE b

\* The call of blogIndex is over: it returned or threw, or the process ended.
AggregationOver == bi.phase \in {"returned", "threw"} \/ Halted

\* C36: the loop of blogIndex terminates, for the page sizes p >= 1: the
\* batch an iteration takes has min(p, remaining) entries, which leave the
\* working collection; the page counter goes up by one at the end of every
\* iteration and nowhere else in the loop; the loop goes on after an
\* iteration exactly when the working collection is not empty, and returns
\* with it empty; and a call of blogIndex that has begun is over in the end.
C36_LoopTerminates ==
    /\ [][/\ (bi.phase = "template" /\ bi'.phase = "post") =>
                /\ postsPerPage >= 1
                /\ Len(bi'.blogPagesSplice) = Min(postsPerPage, Len(blogPages))
                /\ Len(bi'.blogPagesSplice) >= 1
                /\ Len(blogPages') = Len(blogPages) - Len(bi'.blogPagesSplice)
          /\ (bi.phase = "index" /\ bi'.phase # "index") =>
                /\ bi'.pageCount = bi.pageCount + 1
                /\ bi'.phase = IF blogPages = <<>> THEN "returned" ELSE "template"
          /\ (bi.phase \in {"template", "post"} /\ bi'.phase \in {"template", "post", "index"})
                => bi'.pageCount = bi.pageCount
          /\ (bi.phase # "returned" /\ bi'.phase = "returned") => blogPages = <<>>
         ]_vars
    /\ AggregationRunning ~> AggregationOver

\* A loop of three iterations has returned.
C36_Witness ==
    /\ bi.phase = "returned"
    /\ bi.totalBlogPages = 3
    /\ bi.pageCount = 4
    /\ blogPages = <<>>

-----------------------------------------------------------------------------
(* A collected page blogIndex cannot handle.                               *)

\* The pushed pages whose document has no h2 or no Read more control.
UnhandledSlugs ==
    {n \in PushedSlugs :
        \/ FirstTag(PushedContent(n), "h2") = 0
        \/ FirstClass(PushedContent(n), "readmore") = 0}

\* C37: the post of a collected page without Read more control or without
\* h2 is never written and a build that collected such a page does not
\* complete; once blogIndex has thrown no post and no index page is written
\* any more (a page outside pages/text whose write is under way still is),
\* neither the index page of the batch (which, in a pages/text without subdirectory, no
\* earlier call wrote either) nor a later post or index page; and a post
\* that was written stays as it is.
C37_UnhandledPageStopsAggregation ==
    /\ [](/\ \A n \in UnhandledSlugs : PostFilePath(n) \notin DOMAIN public
          /\ UnhandledSlugs # {} => status # "done"
          /\ (UnhandledSlugs # {} /\ bi.phase = "threw" /\ FlatCollectedDir)
                => IndexFilePath(bi.pageCount) \notin DOMAIN public)
    /\ [][/\ bi.phase = "threw" =>
                \A f \in DOMAIN public' :
                    public'[f].kind \in {"post", "index"} =>
                        f \in DOMAIN public /\ public[f] = public'[f]
          /\ \A n \in WrittenPostSlugs :
                /\ PostFilePath(n) \in DOMAIN public'
                /\ public'[PostFilePath(n)] = public[PostFilePath(n)]
         ]_vars


\* blogIndex threw at post2, which has no Read more control, in the batch
\* after the one of post1: post1 and the first index page are written,
\* post2, post3 and the second index page are not.
C37_Witness ==
    /\ bi.phase = "threw"
    /\ "post2" \in UnhandledSlugs
    /\ "post3" \in PushedSlugs \ UnhandledSlugs
    /\ PostFilePath("post1") \in DOMAIN public
    /\ IndexFilePath(1) \in DOMAIN public
    /\ PostFilePath("post2") \notin DOMAIN public
    /\ PostFilePath("post3") \notin DOMAIN public
    /\ IndexFilePath(2) \notin DOMAIN public

-----------------------------------------------------------------------------
(* Navigation highlighting (processPage).                                  *)

\* The nav of component_header.html holds, in this order, the links /,
\* /about, /text, /post1 and /photo, and an anchor without href.
NavHrefs == <<"/", "/about", "/text", "/post1", "/photo", "">>
WithHref == {k \in 1..Len(NavHrefs) : NavHrefs[k] # ""}

\* The links whose href contains the name of the page or its directory, for
\* the pages of pages/text: /text for all of them, /post1 for post1.
ContainingNameOrDir(pageName, targetPath) ==
    {k \in WithHref :
        \/ NavHrefs[k] = "/" \o targetPath
        \/ NavHrefs[k] = "/" \o pageName}

\* C38: a page directly in pages/ has every link of the nav that has an
\* href marked active, whatever its name; a page of pages/text has exactly
\* the links marked whose href contains its name or "text".
C38_NavHighlighting ==
    /\ \A q \in DOMAIN page :
            (page[q].html.kind = "page" /\ TargetPath(page[q].pagePath) = "")
                => page[q].html.active = WithHref
    /\ \A e \in 1..Len(blogPages) :
            blogPages[e].document.active
                = ContainingNameOrDir(blogPages[e].pageName, CollectedDir)

\* pages/about.md has the five links with href marked, post1 has /text and
\* /post1, post2 has /text only.
C38_Witness ==
    /\ page["pages/about.md"].html.kind = "page"
    /\ page["pages/about.md"].html.active = {1, 2, 3, 4, 5}
    /\ Len(blogPages) = 2
    /\ \E e \in 1..2 : blogPages[e].pageName = "post1" /\ blogPages[e].document.active = {3, 4}
    /\ \E e \in 1..2 : blogPages[e].pageName = "post2" /\ blogPages[e].document.active = {3}

-----------------------------------------------------------------------------
(* Replies in a comment thread (blogIndex, the comments block).            *)

\* The replies of a listing: the places of the files with replying_to_uid.
Replies(l) == {k \in 1..Len(l) : l[k].replying_to_uid # ""}

\* C39: in the thread of a written post whose comment directory lists every
\* parent before its replies, the replies that name the same comment all
\* stand after it, a later listed one before an earlier listed one; and
\* every reply, a reply to a reply too, was the element directly after the
\* comment it answers when it was placed.
C39_RepliesInReverseOrder ==
    \A slug \in ThreadedPosts :
        LET l      == project.comments[slug]
            thread == public[PostFilePath(slug)].comments
        IN  /\ \A i, j \in Replies(l) :
                    (i < j /\ l[i].replying_to_uid = l[j].replying_to_uid) =>
                        /\ RenderedAt(thread, l[i].replying_to_uid) < RenderedAt(thread, l[j].id)
                        /\ RenderedAt(thread, l[j].id) < RenderedAt(thread, l[i].id)
            /\ \A k \in Replies(l) :
                    LET then == ThreadAfter(l, thread, k)
                    IN  then[RenderedAt(then, l[k].replying_to_uid) + 1].uid = l[k].id

\* A written post with two replies to one comment: the later listed one
\* stands right after the comment, the earlier listed one right after that.
C39_Witness ==
    /\ "post1" \in ThreadedPosts
    /\ LET l      == project.comments["post1"]
           thread == public[PostFilePath("post1")].comments
       IN  \E i, j \in Replies(l) :
                /\ i < j
                /\ l[i].replying_to_uid = l[j].replying_to_uid
                /\ RenderedAt(thread, l[j].id) = RenderedAt(thread, l[j].replying_to_uid) + 1
                /\ RenderedAt(thread, l[i].id) = RenderedAt(thread, l[j].id) + 1

\* A written post with a reply to a reply, which stands right after it.
C39_ReplyToReplyReached ==
    /\ "post1" \in ThreadedPosts
    /\ LET l      == project.comments["post1"]
           thread == public[PostFilePath("post1")].comments
       IN  \E i, j \in Replies(l) :
                /\ l[j].replying_to_uid = l[i].id
                /\ RenderedAt(thread, l[j].id) = RenderedAt(thread, l[i].id) + 1
====
